---- MODULE Spec2Model ----
(***************************************************************************)
(* Model of the presetphoto image pipeline: processImageWASM and its       *)
(* size-targeted encoder findOptimalQuality (lib/wasmProcessor.ts, the     *)
(* version that reserves the date band with getDateBandHeight and draws it *)
(* with drawDateBand).                                                     *)
(*                                                                         *)
(* Number representation.  The code works on IEEE doubles; the model keeps *)
(* every quantity it compares as an exact integer:                         *)
(*   - a JPEG quality q is stored as q * QScale, QScale = 10 * 2^13, which *)
(*     makes 0.1, 1.0, the 0.05 fallback step and every midpoint of up to  *)
(*     13 halvings of [0.1, 1.0] integers;                                 *)
(*   - targetBytes is stored as targetBytes * PrefSpan (PrefSpan = 70, the *)
(*     divisor of the preference normalisation);                           *)
(*   - a progress value p is stored as p * maxAttempts, which makes        *)
(*     65 + (attempts / maxAttempts) * 30 an integer.                      *)
(* An optional field (qualityPreference?, cropArea?, a nullable colour) is *)
(* the empty sequence when absent and a one-element sequence when present. *)
(***************************************************************************)
EXTENDS Integers, Sequences, FiniteSets, TLC

(***************************************************************************)
(* Bounds of the model.                                                    *)
(***************************************************************************)
\* encoder output sizes are 0, 1, ..., MaxBlobKB kilobytes
MaxBlobKB == 3
\* minSizeKB and maxSizeKB of a request range over 0..MaxSpecKB
MaxSpecKB == 2
\* the most calls of processImage the page makes in one behaviour, and the
\* most of them that are unsettled at one time
MaxRuns == 3
MaxInFlight == 2

(***************************************************************************)
(* Program constants.                                                      *)
(***************************************************************************)
KB == 1024
maxAttempts == 12
PrefSpan == 70
PrefFloor == 30
DefaultPreference == 85
ParamDefaultPreference == 80
QScale == 10 * (2 ^ 13)
\* 0.1, 1.0, 0.05 and 0.01 in quality units (0.01 * QScale is not an integer:
\* a width w exceeds 0.01 iff w * 100 > QScale)
QualityFloor == QScale \div 10
QualityCeil == QScale
FallbackStep == QScale \div 20
\* larger than every |sizeBytes - targetBytes| of the model
Infinity == PrefSpan * KB * KB

None == << >>
Some(v) == << v >>
IsSome(o) == Len(o) = 1
Get(o) == o[1]
\* JavaScript's a ?? b
Coalesce(o, d) == IF IsSome(o) THEN Get(o) ELSE d
Abs(n) == IF n < 0 THEN -n ELSE n
Last(s) == s[Len(s)]
\* a progress value in the model's units
Pct(p) == p * maxAttempts

VARIABLES
    \* ---- the environment and the request
    supportsImageBitmap,    \* module constant: typeof createImageBitmap !== 'undefined'
    supportsOffscreenCanvas,\* module constant: typeof OffscreenCanvas !== 'undefined'
    file,                   \* the File: decoded size and whether it decodes
    options,                \* the ProcessOptions of the invocation
    encKind,                \* "any": any size per call; "mono": a fixed non-decreasing size function
    thresholds,             \* of a "mono" encoder: size(q) = KB * #{i : thresholds[i] <= q}
    defaultQuality,         \* of a "mono" encoder: the quality the platform uses for an
                            \* argument outside [0, 1]
    failingCalls,           \* the encoder calls (1st, 2nd, ...) at which the platform
                            \* produces no blob
    cropper,                \* state of the ImageCropper: rotation, croppedAreaPixels
    sched,                  \* the caller's invocations: which one is running, the
                            \* suspended one, their inputs and their results alone
    \* ---- processImageWASM
    pc,                     \* position of the invocation
    caller,                 \* who called findOptimalQuality
    progressLog,            \* values passed to onProgress, in order
    ops,                    \* canvas and codec operations performed, in order
    finalWidth, finalHeight,
    sourceCanvas,           \* optional [width, height]: the intermediate canvas
    canvas,                 \* optional [width, height, offscreen]: the final canvas
    imageData,              \* pixels of the final canvas (a sample of them), as RGBA
    dateBandHeight, imageAreaHeight,
    imageRect,              \* optional crop/scale draw: its destination rectangle and,
                            \* in source, its source rectangle
    bandRect,               \* optional rectangle filled by drawDateBand
    result,                 \* optional ProcessResult
    \* ---- findOptimalQuality
    qualityPreference, minBytes, maxBytes, targetBytes,
    lowQuality, highQuality, bestBlob, bestDiff, attempts, q,
    encLog,                 \* qualities passed to getBlob, in order
    \* ---- a second call of findOptimalQuality on the same canvas
    firstRun,               \* optional [qualityPreference, targetBytes, size] of the first call
    \* ---- the page
    store,                  \* the state of useAppStore
    hook,                   \* the ProcessingState of useStaticProcessor: step, progress, error
    page                    \* HomePage: the runs of processImage it has started, the one
                            \* the event loop is running, and isReprocessing

envVars == << supportsImageBitmap, supportsOffscreenCanvas, file, options, encKind,
             thresholds, defaultQuality, failingCalls, cropper, sched, store, page >>
pipeVars == << finalWidth, finalHeight, sourceCanvas, canvas, imageData, dateBandHeight,
               imageAreaHeight, imageRect, bandRect, result >>
foqVars == << qualityPreference, minBytes, maxBytes, targetBytes, lowQuality,
              highQuality, bestBlob, bestDiff, attempts, q, encLog >>
vars == << envVars, pc, caller, progressLog, hook, ops, pipeVars, foqVars, firstRun >>

(***************************************************************************)
(* The store, the hook and the page before anything has happened.          *)
(***************************************************************************)
\* const initialState of useAppStore
initialState ==
    [selectedPreset |-> None, selectedType |-> "photo", uploadedFile |-> None,
     uploadedImageUrl |-> None, processedResult |-> None, lastCropArea |-> None,
     customDimensions |-> [width |-> 200, height |-> 230, minKB |-> 10, maxKB |-> 50],
     signatureColor |-> None, outputQuality |-> 80, showCropper |-> FALSE,
     addDate |-> FALSE, darkMode |-> FALSE, isCustomMode |-> FALSE]

\* useState<ProcessingState>({step: 'upload', progress: 0, error: null});
\* progress is kept in the units of Pct
IdleHook == [step |-> "upload", progress |-> 0, error |-> None]

\* (progress) => setState((s) => ({...s, progress}))
onProgress(h, progress) == [h EXCEPT !.progress = progress]

\* no processImage has been called; useState(false) of isReprocessing
NoRuns == [runs |-> << >>, current |-> 0, isReprocessing |-> FALSE]

NoPage ==
    /\ store = initialState
    /\ hook = IdleHook
    /\ page = NoRuns

NullBlob == [null |-> TRUE, size |-> 0, quality |-> 0]
Blob(size, quality) == [null |-> FALSE, size |-> size, quality |-> quality]


(***************************************************************************)
(* Inputs.                                                                 *)
(***************************************************************************)
TargetWidths == {200}
TargetHeights == {7, 60, 230}
SpecKBs == 0 .. MaxSpecKB
Preferences == {0, 30, 31, 80, 100, 120}
Rotations == {-90, 0, 90, 180, 270}
\* a colour string "#rrggbb" is the sequence of its hexadecimal digits; a string
\* the pattern of hexToRgb does not match (such as "#00F") is a sequence of
\* another length
Blue == << 0, 0, 0, 0, 15, 15 >>
InkColors == {Blue}
\* a pixel of an ImageData: four bytes
Pixel(r, g, b, a) == [r |-> r, g |-> g, b |-> b, a |-> a]
White == Pixel(255, 255, 255, 255)
\* the decoded content of the file: a dark opaque pixel and a transparent one
SamplePixels == << Pixel(10, 10, 10, 255), Pixel(0, 0, 0, 0) >>
\* "ok" decodes; "unreadable" cannot be read at all; "corrupt" is read but is no image
Decodabilities == {"ok", "unreadable", "corrupt"}
Files == [width : {1000}, height : {1200}, decodable : Decodabilities,
          pixels : {SamplePixels}]
CropAreas == [x : {0}, y : {0}, width : {400}, height : {460}, rotation : Rotations]
Optional(S) == {None} \cup {Some(v) : v \in S}

\* thresholds of the monotone encoders: a threshold above QualityCeil + FallbackStep
\* is never reached, one at QualityFloor is always reached
OffScale == QualityCeil + 2 * FallbackStep
PipeThresholdSet == {QualityFloor, QualityCeil, OffScale}
\* the first midpoint of the search, and the width of its interval after 7 halvings
Mid0 == (QualityFloor + QualityCeil) \div 2
Width7 == (QualityCeil - QualityFloor) \div (2 ^ 7)
\* thresholds that fall between two qualities the search evaluates
EncThresholdSet == {QualityFloor, Mid0 - Width7 + 1, Mid0 - (Width7 \div 2), Mid0 + 1,
                    QualityCeil, OffScale}
IsSorted(s) == \A i \in 1 .. Len(s) - 1 : s[i] <= s[i + 1]
MonoEncoders(T) == {t \in [1 .. MaxBlobKB -> T] : IsSorted(t)}
\* the encoders that jump from 0 to MaxBlobKB kilobytes at one threshold
JumpEncoders(T) == {[i \in 1 .. MaxBlobKB |-> t] : t \in T}
\* the size function of a canvas the page has drawn is a function of what was
\* drawn: a recoloured canvas encodes to the largest blob at every quality, any
\* other one to an empty blob
PageEncoder(o) ==
    [i \in 1 .. MaxBlobKB |-> IF IsSome(o.signatureColor) THEN QualityFloor ELSE OffScale]

(***************************************************************************)
(* The platform encoder behind getBlob (canvas.convertToBlob / toBlob with *)
(* type image/jpeg).  An encoder of kind "mono" is a function of the       *)
(* quality, non-decreasing on [0, 1]; for an argument outside [0, 1] the   *)
(* platform encodes at its own default quality.  An encoder of kind "any"  *)
(* may return any size at any call.                                        *)
(***************************************************************************)
BlobSizes == {k * KB : k \in 0 .. MaxBlobKB}
DefaultQualities == {Mid0, QualityCeil}
EffectiveQuality(quality, default) ==
    IF quality >= 0 /\ quality <= QScale THEN quality ELSE default
MonoSize(thr, quality) == KB * Cardinality({i \in 1 .. Len(thr) : thr[i] <= quality})
getBlob(kind, thr, default, quality) ==
    IF kind = "mono"
    THEN {Blob(MonoSize(thr, EffectiveQuality(quality, default)), quality)}
    ELSE {Blob(s, quality) : s \in BlobSizes}

(***************************************************************************)
(* Pure helpers of processImageWASM.                                       *)
(***************************************************************************)
\* mutant: the band height is truncated
getDateBandHeightTruncated(targetHeight) == (8 * targetHeight) \div 100

\* Math.round(targetHeight * 0.08): round half up
getDateBandHeight(targetHeight) == (8 * targetHeight + 50) \div 100

\* |sin| and |cos| of a multiple of 90 degrees; Math.round absorbs the 1e-16
\* that Math.sin(Math.PI) and Math.cos(Math.PI / 2) leave
AbsSin(rotation) == IF (rotation \div 90) % 2 = 1 THEN 1 ELSE 0
AbsCos(rotation) == 1 - AbsSin(rotation)
\* mutant: the bounding box keeps the width of the unrotated image
RotatedWidthUnrotated(w, h, rotation) == w

RotatedWidth(w, h, rotation) == w * AbsCos(rotation) + h * AbsSin(rotation)
RotatedHeight(w, h, rotation) == w * AbsSin(rotation) + h * AbsCos(rotation)

\* options.cropArea?.rotation || 0
RotationOf(o) == IF IsSome(o.cropArea) THEN Get(o.cropArea).rotation ELSE 0

\* the intermediate canvas: the rotated bounding box, or the bitmap's own size
SourceCanvasOf(f, rotation) ==
    IF rotation # 0
    THEN [width |-> RotatedWidth(f.width, f.height, rotation),
          height |-> RotatedHeight(f.width, f.height, rotation)]
    ELSE [width |-> f.width, height |-> f.height]

\* const dateBandHeight = options.addDate ? getDateBandHeight(options.targetHeight) : 0
DateBandHeightOf(o) == IF o.addDate THEN getDateBandHeight(o.targetHeight) ELSE 0

\* mutant: the band is added below the target height (canvas.height = newHeight)
FinalCanvasWithBandAdded(o, offscreen) ==
    [width |-> o.targetWidth, height |-> o.targetHeight + DateBandHeightOf(o),
     offscreen |-> offscreen]

\* the final canvas: new OffscreenCanvas(targetWidth, targetHeight), or
\* canvas.width = targetWidth; canvas.height = targetHeight
FinalCanvasOf(o, offscreen) ==
    [width |-> o.targetWidth, height |-> o.targetHeight, offscreen |-> offscreen]

\* options.qualityPreference ?? 85
PreferenceOf(o) == Coalesce(o.qualityPreference, DefaultPreference)

\* mutant: a failed decode is not noticed
BitmapDecodesAlways(f) == TRUE

\* whether createImageBitmap(file) resolves
BitmapDecodes(f) == f.decodable = "ok"
\* whether FileReader.readAsDataURL(file) fires onload (not onerror)
FileReads(f) == f.decodable # "unreadable"
\* whether the Image fires onload (not onerror) for the data URL
ImageLoads(f) == f.decodable = "ok"
\* mutant: the last checkpoint reports completion
FinishProgress100 == Pct(100)

\* the checkpoint after findOptimalQuality has returned: onProgress(95)
FinishProgress == Pct(95)


(***************************************************************************)
(* Pure helpers of findOptimalQuality.                                     *)
(***************************************************************************)
Clamp(v, lo, hi) == IF v < lo THEN lo ELSE IF v > hi THEN hi ELSE v

\* mutant: the normalised preference is not clamped to [0, 1]
TargetBytesUnclamped(minB, maxB, preference) ==
    PrefSpan * minB + (maxB - minB) * (preference - PrefFloor)

\* mutant: the preference is interpolated from maxBytes down to minBytes
TargetBytesInverted(minB, maxB, preference) ==
    PrefSpan * maxB - (maxB - minB) * Clamp(preference - PrefFloor, 0, PrefSpan)

\* normalizedPreference = Math.max(0, Math.min(1, (qualityPreference - 30) / 70))
\* targetBytes = minBytes + (maxBytes - minBytes) * normalizedPreference
\* (the value is targetBytes * PrefSpan)
TargetBytes(minB, maxB, preference) ==
    PrefSpan * minB + (maxB - minB) * Clamp(preference - PrefFloor, 0, PrefSpan)

\* mutant: || in place of &&
LoopContinuesEither(n, low, high) == n < maxAttempts \/ (high - low) * 100 > QScale

\* while (attempts < maxAttempts && highQuality - lowQuality > 0.01)
LoopContinues(n, low, high) == n < maxAttempts /\ (high - low) * 100 > QScale

\* mutant: the probe lies a quarter of the way into the interval
MidpointAtQuarter(low, high) == (3 * low + high) \div 4

\* (lowQuality + highQuality) / 2
Midpoint(low, high) == (low + high) \div 2

\* mutant: the loop's progress restarts from 60
LoopProgressFrom60(n) == Pct(60) + n * 30

\* 65 + (attempts / maxAttempts) * 30
LoopProgress(n) == Pct(65) + n * 30

\* mutant: the closest blob is recorded whatever its size
InBoundsIgnored(size, minB, maxB) == TRUE

\* sizeBytes >= minBytes && sizeBytes <= maxBytes
InBounds(size, minB, maxB) == size >= minB /\ size <= maxB

\* Math.abs(sizeBytes - targetBytes), in the units of targetBytes
DiffTo(size, target) == Abs(PrefSpan * size - target)

\* sizeBytes < targetBytes
BelowTarget(size, target) == PrefSpan * size < target

\* mutant: the decreasing fallback gives up one step above the floor
DecreaseContinuesAboveFloor(quality, size, maxB) ==
    quality > QualityFloor + FallbackStep /\ size > maxB

\* while (q > 0.1 && bestBlob.size > maxBytes)
DecreaseContinues(quality, size, maxB) == quality > QualityFloor /\ size > maxB

\* mutant: the increasing fallback does not test the quality ceiling
IncreaseContinuesBelowMin(quality, size, minB) == size < minB

\* while (q < 1.0 && bestBlob.size < minBytes)
IncreaseContinues(quality, size, minB) == quality < QualityCeil /\ size < minB

\* mutant: the increasing fallback keeps every candidate
WithinMaxIgnored(size, maxB) == TRUE

\* if (newBlob.size <= maxBytes) bestBlob = newBlob; else break
WithinMax(size, maxB) == size <= maxB

(***************************************************************************)
(* processImageWASM, strategy 1: createImageBitmap.                        *)
(***************************************************************************)
\* onProgress?.(v) for each v of values: the values are logged, and a call made
\* by the hook hands each to its callback
Emit(values) ==
    /\ progressLog' = progressLog \o values
    /\ hook' = IF page.current # 0 THEN onProgress(hook, Last(values)) ELSE hook
Do(steps) == ops' = ops \o steps

\* lines 390-400: onProgress(5), finalWidth/finalHeight, the strategy branch,
\* onProgress(10)
Start ==
    /\ pc = "start"
    /\ finalWidth' = options.targetWidth
    /\ finalHeight' = options.targetHeight
    /\ Emit(<< Pct(5), Pct(10) >>)
    /\ pc' = IF supportsImageBitmap THEN "s1_decode" ELSE "s2_read"
    /\ UNCHANGED << envVars, caller, ops, sourceCanvas, canvas, imageData, dateBandHeight,
                    imageAreaHeight, imageRect, bandRect, result, foqVars, firstRun >>

\* line 403-405: await createImageBitmap(file); a rejection rejects the invocation
S1_Decode ==
    /\ pc = "s1_decode"
    /\ IF BitmapDecodes(file)
       THEN /\ Do(<< "decode" >>)
            /\ Emit(<< Pct(15) >>)
            /\ pc' = "s1_rotate"
       ELSE /\ pc' = "rejected"
            /\ UNCHANGED << ops, progressLog, hook >>
    /\ UNCHANGED << envVars, caller, pipeVars, foqVars, firstRun >>

\* lines 408-450: the intermediate canvas (rotated bounding box, white fill and
\* rotated draw; or a plain copy of the bitmap), onProgress(25)
S1_Rotate ==
    /\ pc = "s1_rotate"
    /\ sourceCanvas' = Some(SourceCanvasOf(file, RotationOf(options)))
    /\ Do(IF RotationOf(options) # 0
          THEN << "allocSource", "fillSource", "rotate" >>
          ELSE << "allocSource", "copySource" >>)
    /\ Emit(<< Pct(25) >>)
    /\ pc' = "s1_canvas"
    /\ UNCHANGED << envVars, caller, finalWidth, finalHeight, canvas, imageData, dateBandHeight,
                    imageAreaHeight, imageRect, bandRect, result, foqVars, firstRun >>

\* fillRect in white, then drawImage (source-over): a transparent source pixel
\* leaves the white, an opaque one replaces it; every pixel ends opaque
DrawnPixels(f) ==
    [i \in DOMAIN f.pixels |->
       IF f.pixels[i].a = 255 THEN f.pixels[i] ELSE White]

\* Source rectangles are kept multiplied by DrawScale, which makes
\* srcHeight * targetRatio, srcWidth / targetRatio and the halved margins
\* integers (targetRatio = targetWidth / imageAreaHeight).
DrawScale(o) == 2 * o.targetWidth * (o.targetHeight - DateBandHeightOf(o))
Rect(x, y, width, height) == [x |-> x, y |-> y, width |-> width, height |-> height]

\* drawImage(source, cropArea.x, cropArea.y, cropArea.width, cropArea.height, ...)
CropRect(o) ==
    Rect(DrawScale(o) * Get(o.cropArea).x, DrawScale(o) * Get(o.cropArea).y,
         DrawScale(o) * Get(o.cropArea).width, DrawScale(o) * Get(o.cropArea).height)

\* strategy 1, line 490: drawImage(sourceCanvas, 0, dateBandHeight, targetWidth,
\* imageAreaHeight) takes the whole source
WholeRect(src, o) == Rect(0, 0, DrawScale(o) * src.width, DrawScale(o) * src.height)

\* strategy 2, lines 604-618: the centred rectangle of ratio targetRatio
CenterCropRect(src, o) ==
    LET tw == o.targetWidth
        iah == o.targetHeight - DateBandHeightOf(o)
    IN  IF src.width * iah > tw * src.height
        THEN Rect(tw * iah * src.width - tw * tw * src.height, 0,
                  2 * tw * tw * src.height, DrawScale(o) * src.height)
        ELSE Rect(0, tw * iah * src.height - iah * iah * src.width,
                  DrawScale(o) * src.width, 2 * iah * iah * src.width)

\* the source rectangle of the crop/scale draw
SourceRectOf(src, o, centreCrops) ==
    IF IsSome(o.cropArea) THEN CropRect(o)
    ELSE IF centreCrops THEN CenterCropRect(src, o)
    ELSE WholeRect(src, o)

\* the part both strategies share: band height, final canvas, white fill, the
\* crop/scale draw into the rows below the band
FinalCanvas(offscreen, centreCrops) ==
    /\ imageData' = DrawnPixels(file)
    /\ dateBandHeight' = DateBandHeightOf(options)
    /\ imageAreaHeight' = options.targetHeight - DateBandHeightOf(options)
    /\ canvas' = Some(FinalCanvasOf(options, offscreen))
    /\ imageRect' = Some([x |-> 0, y |-> DateBandHeightOf(options),
                          width |-> options.targetWidth,
                          height |-> options.targetHeight - DateBandHeightOf(options),
                          source |-> SourceRectOf(SourceCanvasOf(file, RotationOf(options)),
                                                  options, centreCrops)])
    /\ Do(<< "allocFinal", "fillFinal", "draw" >>)

\* lines 456-493, onProgress(40)
S1_Canvas ==
    /\ pc = "s1_canvas"
    /\ FinalCanvas(supportsOffscreenCanvas, FALSE)
    /\ Emit(<< Pct(40) >>)
    /\ pc' = "s1_recolor"
    /\ UNCHANGED << envVars, caller, finalWidth, finalHeight, sourceCanvas, bandRect,
                    result, foqVars, firstRun >>

\* hexToRgb: two hexadecimal digits per channel, or black when the pattern
\* does not match
hexToRgb(hex) ==
    IF Len(hex) = 6
    THEN [r |-> 16 * hex[1] + hex[2], g |-> 16 * hex[3] + hex[4], b |-> 16 * hex[5] + hex[6]]
    ELSE [r |-> 0, g |-> 0, b |-> 0]

\* 0.299 * r + 0.587 * g + 0.114 * b, times 1000: luminance * 255000
Luma(p) == 299 * p.r + 587 * p.g + 114 * p.b
\* inkThreshold (0.7) in the units of Luma
InkThreshold == 178500

\* mutant: the blend runs from the target colour to white as the pixel darkens
BlendInverted(target, luma) ==
    (2 * (255 * InkThreshold - (255 - target) * luma) + InkThreshold)
        \div (2 * InkThreshold)

\* Math.round(255 - (255 - target) * intensity), intensity = 1 - luminance / 0.7:
\* the exact value is (255 * 178500 - (255 - target) * (178500 - luma)) / 178500,
\* and Math.round is floor(x + 0.5)
Blend(target, luma) ==
    (2 * (255 * InkThreshold - (255 - target) * (InkThreshold - luma)) + InkThreshold)
        \div (2 * InkThreshold)

\* the loop body of applySignatureColor for one pixel
RecolorPixel(p, target) ==
    IF p.a < 128 THEN White
    ELSE IF Luma(p) < InkThreshold
         THEN Pixel(Blend(target.r, Luma(p)), Blend(target.g, Luma(p)),
                    Blend(target.b, Luma(p)), 255)
         ELSE White

\* applySignatureColor(ctx, canvas, targetColor)
applySignatureColor(data, targetColor) ==
    [i \in DOMAIN data |-> RecolorPixel(data[i], hexToRgb(targetColor))]

\* if (options.signatureColor) applySignatureColor(...): every pixel of the
\* final canvas is rewritten in place
Recolor ==
    IF IsSome(options.signatureColor)
    THEN /\ imageData' = applySignatureColor(imageData, Get(options.signatureColor))
         /\ Do(<< "recolor" >>)
    ELSE UNCHANGED << imageData, ops >>

\* lines 496-501, onProgress(45)
S1_Recolor ==
    /\ pc = "s1_recolor"
    /\ Recolor
    /\ Emit(<< Pct(45) >>)
    /\ pc' = "s1_date"
    /\ UNCHANGED << envVars, caller, finalWidth, finalHeight, sourceCanvas, canvas,
                    dateBandHeight, imageAreaHeight, imageRect, bandRect, result,
                    foqVars, firstRun >>

\* Math.max(12, Math.round(bandHeight * 0.6)): the date is written in this font
\* size, centred on row bandHeight / 2
DateFontSize(bandHeight) ==
    IF (6 * bandHeight + 5) \div 10 > 12 THEN (6 * bandHeight + 5) \div 10 ELSE 12

\* mutant: the ink recolor is applied after the band has been drawn
DateBandThenRecolor ==
    IF options.addDate
    THEN /\ bandRect' = Some([x |-> 0, y |-> 0, width |-> Get(canvas).width,
                              height |-> dateBandHeight,
                              fontSize |-> DateFontSize(dateBandHeight)])
         /\ Do(IF IsSome(options.signatureColor) THEN << "band", "recolor" >>
               ELSE << "band" >>)
    ELSE UNCHANGED << bandRect, ops >>

\* drawDateBand(ctx, canvas, dateBandHeight): fills rows [0, bandHeight) and
\* writes the date; the canvas keeps its size
DateBand ==
    IF options.addDate
    THEN /\ bandRect' = Some([x |-> 0, y |-> 0, width |-> Get(canvas).width,
                              height |-> dateBandHeight,
                              fontSize |-> DateFontSize(dateBandHeight)])
         /\ Do(<< "band" >>)
    ELSE UNCHANGED << bandRect, ops >>

\* findOptimalQuality(canvas, options.minSizeKB, options.maxSizeKB,
\*   options.qualityPreference ?? 85, onProgress); the parameter's own default
\* (qualityPreference: number = 80) applies to an undefined argument only
CallFindOptimalQuality ==
    /\ qualityPreference' = Coalesce(Some(PreferenceOf(options)), ParamDefaultPreference)
    /\ caller' = "processImageWASM"

\* lines 504-517, onProgress(50), then the call of findOptimalQuality
S1_Date ==
    /\ pc = "s1_date"
    /\ DateBand
    /\ Emit(<< Pct(50) >>)
    /\ CallFindOptimalQuality
    /\ pc' = "foq_enter"
    /\ UNCHANGED << envVars, finalWidth, finalHeight, sourceCanvas, canvas, imageData,
                    dateBandHeight, imageAreaHeight, imageRect, result,
                    minBytes, maxBytes, targetBytes, lowQuality, highQuality,
                    bestBlob, bestDiff, attempts, q, encLog, firstRun >>


(***************************************************************************)
(* processImageWASM, strategy 2: FileReader + Image + Canvas.              *)
(***************************************************************************)
\* lines 535-542: FileReader.readAsDataURL; onerror rejects; onProgress(20)
S2_Read ==
    /\ pc = "s2_read"
    /\ IF FileReads(file)
       THEN /\ Emit(<< Pct(20) >>)
            /\ pc' = "s2_load"
       ELSE /\ pc' = "rejected"
            /\ UNCHANGED << progressLog, hook >>
    /\ UNCHANGED << envVars, caller, ops, pipeVars, foqVars, firstRun >>

\* lines 544-551: img.src = dataUrl; onerror rejects; onProgress(30)
S2_Load ==
    /\ pc = "s2_load"
    /\ IF ImageLoads(file)
       THEN /\ Do(<< "decode" >>)
            /\ Emit(<< Pct(30) >>)
            /\ pc' = "s2_rotate"
       ELSE /\ pc' = "rejected"
            /\ UNCHANGED << ops, progressLog, hook >>
    /\ UNCHANGED << envVars, caller, pipeVars, foqVars, firstRun >>

\* lines 554-575: a rotated canvas only when rotation !== 0; otherwise the
\* Image itself is the source
S2_Rotate ==
    /\ pc = "s2_rotate"
    /\ IF RotationOf(options) # 0
       THEN /\ sourceCanvas' = Some(SourceCanvasOf(file, RotationOf(options)))
            /\ Do(<< "allocSource", "fillSource", "rotate" >>)
       ELSE UNCHANGED << sourceCanvas, ops >>
    /\ pc' = "s2_canvas"
    /\ UNCHANGED << envVars, caller, progressLog, hook, finalWidth, finalHeight, canvas, imageData,
                    dateBandHeight, imageAreaHeight, imageRect, bandRect, result,
                    foqVars, firstRun >>

\* lines 578-623: document.createElement('canvas'), onProgress(50)
S2_Canvas ==
    /\ pc = "s2_canvas"
    /\ FinalCanvas(FALSE, TRUE)
    /\ Emit(<< Pct(50) >>)
    /\ pc' = "s2_recolor"
    /\ UNCHANGED << envVars, caller, finalWidth, finalHeight, sourceCanvas, bandRect,
                    result, foqVars, firstRun >>

\* lines 626-630, onProgress(55)
S2_Recolor ==
    /\ pc = "s2_recolor"
    /\ Recolor
    /\ Emit(<< Pct(55) >>)
    /\ pc' = "s2_date"
    /\ UNCHANGED << envVars, caller, finalWidth, finalHeight, sourceCanvas, canvas,
                    dateBandHeight, imageAreaHeight, imageRect, bandRect, result,
                    foqVars, firstRun >>

\* lines 633-646, onProgress(60), then the call of findOptimalQuality
S2_Date ==
    /\ pc = "s2_date"
    /\ DateBand
    /\ Emit(<< Pct(60) >>)
    /\ CallFindOptimalQuality
    /\ pc' = "foq_enter"
    /\ UNCHANGED << envVars, finalWidth, finalHeight, sourceCanvas, canvas, imageData,
                    dateBandHeight, imageAreaHeight, imageRect, result,
                    minBytes, maxBytes, targetBytes, lowQuality, highQuality,
                    bestBlob, bestDiff, attempts, q, encLog, firstRun >>

(***************************************************************************)
(* findOptimalQuality.                                                     *)
(***************************************************************************)
\* one await getBlob(quality) on the final canvas
Encode(quality, blob) ==
    /\ blob \in getBlob(encKind, thresholds, defaultQuality, quality)
    /\ encLog' = Append(encLog, quality)
    /\ Do(<< "encode" >>)

\* whether the next getBlob rejects: toBlob calls back with null (line 301) or
\* convertToBlob rejects (line 297)
EncoderFails == (Len(encLog) + 1) \in failingCalls

\* await getBlob(quality) throws: no try/catch encloses it, so findOptimalQuality
\* rejects at this await, and so does the processImageWASM that awaits it
EncodeRejects(quality) ==
    /\ encLog' = Append(encLog, quality)
    /\ pc' = "rejected"
    /\ UNCHANGED << ops, progressLog, hook, bestBlob, bestDiff, lowQuality, highQuality,
                    attempts, q >>

\* lines 284-317: byte bounds, targetBytes, onProgress(65), the search interval
FOQ_Enter ==
    /\ pc = "foq_enter"
    /\ maxBytes' = options.maxSizeKB * KB
    /\ minBytes' = options.minSizeKB * KB
    /\ targetBytes' = TargetBytes(options.minSizeKB * KB, options.maxSizeKB * KB,
                                  qualityPreference)
    /\ Emit(<< Pct(65) >>)
    /\ lowQuality' = QualityFloor
    /\ highQuality' = QualityCeil
    /\ bestBlob' = NullBlob
    /\ bestDiff' = Infinity
    /\ attempts' = 0
    /\ pc' = "foq_loop"
    /\ UNCHANGED << envVars, caller, ops, pipeVars, qualityPreference, q, encLog,
                    firstRun >>

\* lines 319-345: one iteration of the binary search
FOQ_Loop ==
    /\ pc = "foq_loop"
    /\ LoopContinues(attempts, lowQuality, highQuality)
    /\ IF EncoderFails
       THEN EncodeRejects(Midpoint(lowQuality, highQuality))
       ELSE /\ \E blob \in getBlob(encKind, thresholds, defaultQuality,
                                    Midpoint(lowQuality, highQuality)) :
                 LET quality == Midpoint(lowQuality, highQuality)
                     sizeBytes == blob.size
                     diff == DiffTo(sizeBytes, targetBytes)
                     better == InBounds(sizeBytes, minBytes, maxBytes) /\ diff < bestDiff
                 IN  /\ Encode(quality, blob)
                     /\ Emit(<< LoopProgress(attempts) >>)
                     /\ bestDiff' = IF better THEN diff ELSE bestDiff
                     /\ bestBlob' = IF better THEN blob ELSE bestBlob
                     /\ IF BelowTarget(sizeBytes, targetBytes)
                        THEN lowQuality' = quality /\ UNCHANGED highQuality
                        ELSE highQuality' = quality /\ UNCHANGED lowQuality
            /\ attempts' = attempts + 1
            /\ UNCHANGED << pc, q >>
    /\ UNCHANGED << envVars, caller, pipeVars, qualityPreference, minBytes,
                    maxBytes, targetBytes, firstRun >>

\* lines 319, 348: the loop condition fails; a recorded blob is returned as is
FOQ_LoopExit ==
    /\ pc = "foq_loop"
    /\ ~ LoopContinues(attempts, lowQuality, highQuality)
    /\ pc' = IF bestBlob.null THEN "foq_final" ELSE "foq_return"
    /\ UNCHANGED << envVars, caller, progressLog, hook, ops, pipeVars, foqVars, firstRun >>

\* lines 350-354, 362: the final attempt at the last midpoint
FOQ_Final ==
    /\ pc = "foq_final"
    /\ IF EncoderFails
       THEN EncodeRejects(Midpoint(lowQuality, highQuality))
       ELSE /\ \E blob \in getBlob(encKind, thresholds, defaultQuality,
                                    Midpoint(lowQuality, highQuality)) :
                 /\ Encode(Midpoint(lowQuality, highQuality), blob)
                 /\ bestBlob' = blob
                 /\ pc' = IF blob.size > maxBytes THEN "foq_decrease"
                          ELSE IF blob.size < minBytes THEN "foq_increase"
                          ELSE "foq_return"
            /\ q' = Midpoint(lowQuality, highQuality)
            /\ UNCHANGED << progressLog, hook, lowQuality, highQuality, bestDiff, attempts >>
    /\ UNCHANGED << envVars, caller, pipeVars, qualityPreference,
                    minBytes, maxBytes, targetBytes, firstRun >>

\* lines 356-359: while (q > 0.1 && bestBlob.size > maxBytes) { q -= 0.05; ... }
FOQ_Decrease ==
    /\ pc = "foq_decrease"
    /\ IF DecreaseContinues(q, bestBlob.size, maxBytes)
       THEN IF EncoderFails
            THEN EncodeRejects(q - FallbackStep)
            ELSE /\ q' = q - FallbackStep
                 /\ \E blob \in getBlob(encKind, thresholds, defaultQuality,
                                         q - FallbackStep) :
                      /\ Encode(q - FallbackStep, blob)
                      /\ bestBlob' = blob
                 /\ UNCHANGED << pc, progressLog, hook, lowQuality, highQuality, bestDiff,
                                 attempts >>
       ELSE /\ pc' = "foq_return"
            /\ UNCHANGED << q, bestBlob, encLog, ops, progressLog, hook, lowQuality,
                            highQuality, bestDiff, attempts >>
    /\ UNCHANGED << envVars, caller, pipeVars, qualityPreference,
                    minBytes, maxBytes, targetBytes, firstRun >>

\* lines 364-372: while (q < 1.0 && bestBlob.size < minBytes) { q += 0.05; ... }
\* with the break on a blob above maxBytes
FOQ_Increase ==
    /\ pc = "foq_increase"
    /\ IF IncreaseContinues(q, bestBlob.size, minBytes)
       THEN IF EncoderFails
            THEN EncodeRejects(q + FallbackStep)
            ELSE /\ q' = q + FallbackStep
                 /\ \E newBlob \in getBlob(encKind, thresholds, defaultQuality,
                                            q + FallbackStep) :
                      /\ Encode(q + FallbackStep, newBlob)
                      /\ IF WithinMax(newBlob.size, maxBytes)
                         THEN bestBlob' = newBlob /\ UNCHANGED pc
                         ELSE pc' = "foq_return" /\ UNCHANGED bestBlob
                 /\ UNCHANGED << progressLog, hook, lowQuality, highQuality, bestDiff,
                                 attempts >>
       ELSE /\ pc' = "foq_return"
            /\ UNCHANGED << q, bestBlob, encLog, ops, progressLog, hook, lowQuality,
                            highQuality, bestDiff, attempts >>
    /\ UNCHANGED << envVars, caller, pipeVars, qualityPreference,
                    minBytes, maxBytes, targetBytes, firstRun >>

\* lines 378-379: onProgress(95); return bestBlob
FOQ_Return ==
    /\ pc = "foq_return"
    /\ Emit(<< Pct(95) >>)
    /\ pc' = IF caller = "processImageWASM" THEN "finish" ELSE "returned"
    /\ UNCHANGED << envVars, caller, ops, pipeVars, foqVars, firstRun >>

\* sizeKB: Math.round((blob.size / 1024) * 100) / 100, in hundredths of a KB
SizeKB(size) == (2 * 100 * size + KB) \div (2 * KB)

\* lines 519-529 and 648-658: onProgress(95) and the ProcessResult
Finish ==
    /\ pc = "finish"
    /\ Emit(<< FinishProgress >>)
    /\ result' = Some([blob |-> bestBlob, width |-> finalWidth, height |-> finalHeight,
                       sizeKB |-> SizeKB(bestBlob.size)])
    /\ pc' = "resolved"
    /\ UNCHANGED << envVars, caller, ops, finalWidth, finalHeight, sourceCanvas, canvas, imageData,
                    dateBandHeight, imageAreaHeight, imageRect, bandRect, foqVars,
                    firstRun >>


(***************************************************************************)
(* A second call of findOptimalQuality on the same canvas, bounds and      *)
(* encoder, with the preference at the top of its range, after a call with *)
(* the preference at the bottom of its range.  It is made for the encoders *)
(* with a size function; the logs are those of the new call.               *)
(***************************************************************************)
Recall ==
    /\ pc = "returned"
    /\ encKind = "mono"
    /\ firstRun = None
    /\ qualityPreference = PrefFloor
    /\ firstRun' = Some([qualityPreference |-> qualityPreference,
                         targetBytes |-> targetBytes, size |-> bestBlob.size])
    /\ qualityPreference' = PrefFloor + PrefSpan
    /\ progressLog' = << >>
    /\ UNCHANGED hook
    /\ ops' = << >>
    /\ encLog' = << >>
    /\ pc' = "foq_enter"
    /\ UNCHANGED << envVars, caller, pipeVars, minBytes, maxBytes, targetBytes,
                    lowQuality, highQuality, bestBlob, bestDiff, attempts, q >>

(***************************************************************************)
(* The ImageCropper, whose confirmed crop starts the processing.           *)
(***************************************************************************)
\* JavaScript's a % n for n > 0: the result has the sign of a
JsRemainder(a, n) == IF a >= 0 THEN a % n ELSE - ((- a) % n)

\* useState(0) and useState(null)
ClosedCropper == [rotation |-> 0, croppedAreaPixels |-> None]

\* the pixel rectangles react-easy-crop reports
CroppedAreas == [x : {0, 100}, y : {0}, width : {400}, height : {460}]

\* onClick={() => setRotation((r) => (r - 90) % 360)}
RotateLeft ==
    /\ pc = "cropping"
    /\ cropper' = [cropper EXCEPT !.rotation = JsRemainder(@ - 90, 360)]
    /\ UNCHANGED << supportsImageBitmap, supportsOffscreenCanvas, file, options, encKind,
                    thresholds, defaultQuality, failingCalls, sched, store, page, pc, caller,
                    progressLog, hook, ops, pipeVars, foqVars, firstRun >>

\* onClick={() => setRotation((r) => (r + 90) % 360)}
RotateRight ==
    /\ pc = "cropping"
    /\ cropper' = [cropper EXCEPT !.rotation = JsRemainder(@ + 90, 360)]
    /\ UNCHANGED << supportsImageBitmap, supportsOffscreenCanvas, file, options, encKind,
                    thresholds, defaultQuality, failingCalls, sched, store, page, pc, caller,
                    progressLog, hook, ops, pipeVars, foqVars, firstRun >>

\* handleCropComplete: react-easy-crop reports the crop rectangle in pixels
HandleCropComplete ==
    /\ pc = "cropping"
    /\ \E area \in CroppedAreas :
         cropper' = [cropper EXCEPT !.croppedAreaPixels = Some(area)]
    /\ UNCHANGED << supportsImageBitmap, supportsOffscreenCanvas, file, options, encKind,
                    thresholds, defaultQuality, failingCalls, sched, store, page, pc, caller,
                    progressLog, hook, ops, pipeVars, foqVars, firstRun >>

\* handleConfirm: onCropComplete({...croppedAreaPixels, rotation}); the page
\* hands the crop to processImage, which copies x, y, width, height and
\* rotation into options.cropArea and calls processImageWASM
HandleConfirm ==
    /\ pc = "cropping"
    /\ IsSome(cropper.croppedAreaPixels)
    /\ options' = [options EXCEPT !.cropArea =
                      Some([x |-> Get(cropper.croppedAreaPixels).x,
                            y |-> Get(cropper.croppedAreaPixels).y,
                            width |-> Get(cropper.croppedAreaPixels).width,
                            height |-> Get(cropper.croppedAreaPixels).height,
                            rotation |-> cropper.rotation])]
    /\ pc' = "start"
    /\ UNCHANGED << supportsImageBitmap, supportsOffscreenCanvas, file, encKind,
                    thresholds, defaultQuality, failingCalls, cropper, sched, store, page, caller,
                    progressLog, hook, ops, pipeVars, foqVars, firstRun >>

(***************************************************************************)
(* Two invocations of processImageWASM by one caller.  JavaScript runs one *)
(* of them at a time and changes over only where the running one awaits:   *)
(* the decode (createImageBitmap, FileReader, Image) and every getBlob.    *)
(* What an invocation owns - its arguments, its locals, its canvases and   *)
(* the encoder's size function of its canvas - is put aside while the      *)
(* other one runs; the module's only other state, supportsImageBitmap and  *)
(* supportsOffscreenCanvas, is constant.                                   *)
(***************************************************************************)
SingleInvocation == [phase |-> "single", self |-> 1, other |-> None, inputs |-> << >>,
                     alone |-> << >>]

\* the arguments and locals of the running invocation
Current ==
    [file |-> file, options |-> options, thresholds |-> thresholds, pc |-> pc,
     caller |-> caller, progressLog |-> progressLog, ops |-> ops,
     finalWidth |-> finalWidth, finalHeight |-> finalHeight,
     sourceCanvas |-> sourceCanvas, canvas |-> canvas, imageData |-> imageData,
     dateBandHeight |-> dateBandHeight, imageAreaHeight |-> imageAreaHeight,
     imageRect |-> imageRect, bandRect |-> bandRect, result |-> result,
     qualityPreference |-> qualityPreference, minBytes |-> minBytes,
     maxBytes |-> maxBytes, targetBytes |-> targetBytes, lowQuality |-> lowQuality,
     highQuality |-> highQuality, bestBlob |-> bestBlob, bestDiff |-> bestDiff,
     attempts |-> attempts, q |-> q, encLog |-> encLog]

\* an invocation that has just been called: processImageWASM(file, options, onProgress)
Called(input) ==
    [file |-> input.file, options |-> input.options, thresholds |-> input.thresholds,
     pc |-> "start", caller |-> "processImageWASM", progressLog |-> << >>, ops |-> << >>,
     finalWidth |-> 0, finalHeight |-> 0, sourceCanvas |-> None, canvas |-> None,
     imageData |-> << >>, dateBandHeight |-> 0, imageAreaHeight |-> 0,
     imageRect |-> None, bandRect |-> None, result |-> None, qualityPreference |-> 0,
     minBytes |-> 0, maxBytes |-> 0, targetBytes |-> 0, lowQuality |-> 0,
     highQuality |-> 0, bestBlob |-> NullBlob, bestDiff |-> Infinity, attempts |-> 0,
     q |-> 0, encLog |-> << >>]

\* mutant: finalWidth and finalHeight are variables of the module, not of the
\* invocation
ResumedSharingFinalSize(saved, running) ==
    [saved EXCEPT !.finalWidth = running.finalWidth, !.finalHeight = running.finalHeight]

\* what an invocation finds when it continues after an await: its own locals
\* as it left them (lines 390-396: all state is declared inside the function)
Resumed(saved, running) == saved

\* the locals of the invocation the event loop continues with
Load(ctx) ==
    /\ file' = ctx.file
    /\ options' = ctx.options
    /\ thresholds' = ctx.thresholds
    /\ pc' = ctx.pc
    /\ caller' = ctx.caller
    /\ progressLog' = ctx.progressLog
    /\ ops' = ctx.ops
    /\ finalWidth' = ctx.finalWidth
    /\ finalHeight' = ctx.finalHeight
    /\ sourceCanvas' = ctx.sourceCanvas
    /\ canvas' = ctx.canvas
    /\ imageData' = ctx.imageData
    /\ dateBandHeight' = ctx.dateBandHeight
    /\ imageAreaHeight' = ctx.imageAreaHeight
    /\ imageRect' = ctx.imageRect
    /\ bandRect' = ctx.bandRect
    /\ result' = ctx.result
    /\ qualityPreference' = ctx.qualityPreference
    /\ minBytes' = ctx.minBytes
    /\ maxBytes' = ctx.maxBytes
    /\ targetBytes' = ctx.targetBytes
    /\ lowQuality' = ctx.lowQuality
    /\ highQuality' = ctx.highQuality
    /\ bestBlob' = ctx.bestBlob
    /\ bestDiff' = ctx.bestDiff
    /\ attempts' = ctx.attempts
    /\ q' = ctx.q
    /\ encLog' = ctx.encLog

\* the event loop continues with the invocation whose locals are ctx
Run(ctx) ==
    /\ Load(ctx)
    /\ UNCHANGED << supportsImageBitmap, supportsOffscreenCanvas, encKind,
                    defaultQuality, failingCalls, cropper, firstRun, store, hook, page >>

\* the positions at which an invocation is waiting on the platform
SuspensionPoints ==
    {"s1_decode", "s2_read", "s2_load", "foq_loop", "foq_final", "foq_decrease",
     "foq_increase"}
Settled == {"resolved", "rejected"}

\* the first invocation has resolved on its own; the caller awaits it and then
\* calls the second one on its own
CallSecondAlone ==
    /\ sched.phase = "alone1"
    /\ pc \in Settled
    /\ sched' = [sched EXCEPT !.phase = "alone2", !.self = 2,
                              !.alone = << Current.result >>]
    /\ Run(Called(sched.inputs[2]))

\* both have resolved on their own; the caller calls the first again and,
\* while it is waiting, the second
CallOverlapping ==
    /\ sched.phase = "alone2"
    /\ pc \in Settled
    /\ sched' = [sched EXCEPT !.phase = "overlap", !.self = 1,
                              !.alone = Append(@, Current.result),
                              !.other = Some(Called(sched.inputs[2]))]
    /\ Run(Called(sched.inputs[1]))

\* the running invocation awaits or has settled: the event loop continues
\* the other one (which the caller has just called, or whose await is over)
Switch ==
    /\ sched.phase = "overlap"
    /\ pc \in SuspensionPoints \cup Settled
    /\ Get(sched.other).pc \notin Settled
    /\ sched' = [sched EXCEPT !.self = 3 - @, !.other = Some(Current)]
    /\ Run(Resumed(Get(sched.other), Current))

(***************************************************************************)
(* The store (useAppStore): its setters, as functions of the state.        *)
(***************************************************************************)
\* an ImageSpec of a preset
ImageSpec(widthPx, heightPx, minSizeKB, maxSizeKB, dateFormat) ==
    [widthPx |-> widthPx, heightPx |-> heightPx, minSizeKB |-> minSizeKB,
     maxSizeKB |-> maxSizeKB, dateFormat |-> dateFormat]

\* the presets the selector offers: an exam with a photo and a signature
\* specification
ExamPresets ==
    {[id |-> "exam", specs |-> [photo |-> ImageSpec(200, 230, 1, 2, TRUE),
                                signature |-> ImageSpec(200, 60, 0, 2, FALSE)]]}
\* the colours of the picker: Original (null) and Blue
PickerColors == Optional(InkColors)
\* the values of the quality buttons and of the range input
SliderValues == {40}
\* the files the user uploads
UploadFiles == {f \in Files : f.decodable \in {"ok", "corrupt"}}
\* what the cropper hands to onCropComplete
PageCropAreas == {c \in CropAreas : c.rotation = 90}

\* setPreset
setPreset(st, preset) ==
    [st EXCEPT !.selectedPreset = Some(preset),
               !.processedResult = None,
               !.addDate = preset.specs.photo.dateFormat,
               !.isCustomMode = (preset.id = "custom")]

\* setType
setType(st, type) == [st EXCEPT !.selectedType = type, !.processedResult = None]

\* setUploadedFile: showCropper: !!file
setUploadedFile(st, f, imageUrl) ==
    [st EXCEPT !.uploadedFile = f, !.uploadedImageUrl = imageUrl,
               !.processedResult = None, !.showCropper = IsSome(f)]

\* setProcessedResult
setProcessedResult(st, r) == [st EXCEPT !.processedResult = r, !.showCropper = FALSE]

\* setLastCropArea
setLastCropArea(st, cropArea) == [st EXCEPT !.lastCropArea = cropArea]

\* setSignatureColor
setSignatureColor(st, color) == [st EXCEPT !.signatureColor = color]

\* setOutputQuality
setOutputQuality(st, quality) == [st EXCEPT !.outputQuality = quality]

\* setShowCropper
setShowCropper(st, show) == [st EXCEPT !.showCropper = show]

\* setDarkMode
setDarkMode(st, dark) == [st EXCEPT !.darkMode = dark]

\* reset: set({...initialState, darkMode: false})
reset(st) == [initialState EXCEPT !.darkMode = FALSE]

(***************************************************************************)
(* HomePage and useStaticProcessor.                                        *)
(***************************************************************************)
\* currentSpec (page.tsx lines 64-76)
currentSpec(st) ==
    IF st.isCustomMode
    THEN Some(ImageSpec(st.customDimensions.width, st.customDimensions.height,
                        st.customDimensions.minKB, st.customDimensions.maxKB, FALSE))
    ELSE IF IsSome(st.selectedPreset)
         THEN IF st.selectedType = "photo"
              THEN Some(Get(st.selectedPreset).specs.photo)
              ELSE Some(Get(st.selectedPreset).specs.signature)
         ELSE None

\* the arguments of useStaticProcessor at the last render (page.tsx lines 79-84);
\* the hook of src/src/store/useAppStore.ts lines 171-175 destructures spec,
\* addDate and signatureColor and nothing else, so qualityPreference is dropped
HookArgs(st) ==
    [spec |-> Coalesce(currentSpec(st), ImageSpec(200, 200, 10, 100, FALSE)),
     addDate |-> (st.addDate /\ st.selectedType = "photo"),
     signatureColor |-> IF st.selectedType = "signature" THEN st.signatureColor ELSE None]

\* the ProcessOptions processImage builds (lines 196-215); override is None for
\* an argument that was not passed (undefined) and Some(colour or null) otherwise
ProcessOptionsOf(args, cropArea, override) ==
    [targetWidth |-> args.spec.widthPx,
     targetHeight |-> args.spec.heightPx,
     minSizeKB |-> args.spec.minSizeKB,
     maxSizeKB |-> args.spec.maxSizeKB,
     addDate |-> args.addDate,
     signatureColor |-> IF IsSome(override) THEN Get(override) ELSE args.signatureColor,
     qualityPreference |-> None,
     cropArea |-> cropArea]

\* setState({ step: 'processing', progress: 0, error: null })
HookProcessing == [step |-> "processing", progress |-> 0, error |-> None]
\* setState({ step: 'complete', progress: 100, error: null })
HookComplete == [step |-> "complete", progress |-> Pct(100), error |-> None]
\* mutant: the catch block records the message and leaves the step alone
HookFailedKeepingStep(h) == [h EXCEPT !.error = Some("message")]

\* catch: setState({ step: 'upload', progress: 0, error: errorMessage })
HookFailed(h) == [step |-> "upload", progress |-> 0, error |-> Some("message")]

\* the ProcessedResult processImage returns (lines 227-240): the object URL is
\* a fresh one for each call, named here by the number of the run
ProcessedResultOf(res, run) ==
    [blob |-> res.blob, dataUrl |-> run, sizeKB |-> res.sizeKB,
     dimensions |-> [width |-> res.width, height |-> res.height]]

(***************************************************************************)
(* Initial states.                                                         *)
(***************************************************************************)
Requests(preferences, crops) ==
    [targetWidth : TargetWidths, targetHeight : TargetHeights,
     minSizeKB : SpecKBs, maxSizeKB : SpecKBs, addDate : BOOLEAN,
     signatureColor : Optional(InkColors),
     qualityPreference : Optional(preferences), cropArea : Optional(crops)]

InitLocals ==
    /\ NoPage
    /\ progressLog = << >>
    /\ ops = << >>
    /\ finalWidth = 0
    /\ finalHeight = 0
    /\ sourceCanvas = None
    /\ dateBandHeight = 0
    /\ imageAreaHeight = 0
    /\ imageRect = None
    /\ bandRect = None
    /\ result = None
    /\ minBytes = 0
    /\ maxBytes = 0
    /\ targetBytes = 0
    /\ lowQuality = 0
    /\ highQuality = 0
    /\ bestBlob = NullBlob
    /\ bestDiff = Infinity
    /\ attempts = 0
    /\ q = 0
    /\ encLog = << >>
    /\ firstRun = None

\* an invocation of processImageWASM(file, options, onProgress)
Init ==
    /\ supportsImageBitmap \in BOOLEAN
    /\ supportsOffscreenCanvas \in BOOLEAN
    /\ supportsImageBitmap \/ ~ supportsOffscreenCanvas
    /\ file \in Files
    /\ options \in Requests({PrefFloor, PrefFloor + PrefSpan}, CropAreas)
    /\ encKind = "mono"
    /\ thresholds \in JumpEncoders(PipeThresholdSet)
    /\ defaultQuality = QualityCeil
    /\ failingCalls = {}
    /\ cropper = ClosedCropper
    /\ sched = SingleInvocation
    /\ pc = "start"
    /\ caller = "processImageWASM"
    /\ qualityPreference = 0
    /\ canvas = None
    /\ imageData = << >>
    /\ InitLocals

\* a call of findOptimalQuality(canvas, minSizeKB, maxSizeKB, qualityPreference)
\* on a finished canvas
InitEnc ==
    /\ supportsImageBitmap = TRUE
    /\ supportsOffscreenCanvas = TRUE
    /\ file \in {f \in Files : f.decodable = "ok"}
    /\ options \in {o \in Requests({}, {}) : ~ o.addDate /\ o.signatureColor = None
                                              /\ o.targetHeight = 230}
    /\ \/ encKind = "any" /\ thresholds = << >> /\ defaultQuality = QualityCeil
       \/ /\ encKind = "mono"
          /\ thresholds \in MonoEncoders(EncThresholdSet)
          /\ defaultQuality \in DefaultQualities
    /\ failingCalls = {}
    /\ cropper = ClosedCropper
    /\ sched = SingleInvocation
    /\ pc = "foq_enter"
    /\ caller = "harness"
    /\ qualityPreference \in {Coalesce(p, ParamDefaultPreference) : p \in Optional(Preferences)}
    /\ canvas = Some(FinalCanvasOf(options, TRUE))
    /\ imageData = DrawnPixels(file)
    /\ InitLocals

\* the cropper is open on an uploaded file
InitCrop ==
    /\ supportsImageBitmap = TRUE
    /\ supportsOffscreenCanvas \in BOOLEAN
    /\ file \in {f \in Files : f.decodable = "ok"}
    /\ options \in {o \in Requests({}, {}) :
                       /\ o.targetHeight = 230
                       /\ o.minSizeKB = 0
                       /\ o.maxSizeKB = MaxSpecKB
                       /\ o.signatureColor = None}
    /\ encKind = "mono"
    /\ thresholds \in JumpEncoders({QualityFloor})
    /\ defaultQuality = QualityCeil
    /\ failingCalls = {}
    /\ cropper = ClosedCropper
    /\ sched = SingleInvocation
    /\ pc = "cropping"
    /\ caller = "processImageWASM"
    /\ qualityPreference = 0
    /\ canvas = None
    /\ imageData = << >>
    /\ InitLocals

\* what the caller passes to an invocation, with the size function of the
\* canvas it will draw
ConcurrentInputs ==
    [file : {f \in Files : f.decodable = "ok"},
     options : {o \in Requests({}, {}) :
                  /\ o.minSizeKB = 1
                  /\ o.maxSizeKB = MaxSpecKB
                  /\ o.signatureColor = None
                  /\ o.targetHeight \in {60, 230}
                  /\ o.addDate = (o.targetHeight = 230)},
     thresholds : JumpEncoders(PipeThresholdSet)]

\* a caller with two requests: it runs each alone, then both overlapping
InitConcurrent ==
    /\ supportsImageBitmap \in BOOLEAN
    /\ supportsOffscreenCanvas \in BOOLEAN
    /\ supportsImageBitmap \/ ~ supportsOffscreenCanvas
    /\ encKind = "mono"
    /\ defaultQuality = QualityCeil
    /\ failingCalls = {}
    /\ cropper = ClosedCropper
    /\ firstRun = None
    /\ \E first \in ConcurrentInputs, second \in ConcurrentInputs :
         /\ sched = [phase |-> "alone1", self |-> 1, other |-> None,
                     inputs |-> << first, second >>, alone |-> << >>]
         /\ file = first.file
         /\ options = first.options
         /\ thresholds = first.thresholds
    /\ pc = "start"
    /\ caller = "processImageWASM"
    /\ qualityPreference = 0
    /\ canvas = None
    /\ imageData = << >>
    /\ NoPage
    /\ progressLog = << >>
    /\ ops = << >>
    /\ finalWidth = 0
    /\ finalHeight = 0
    /\ sourceCanvas = None
    /\ dateBandHeight = 0
    /\ imageAreaHeight = 0
    /\ imageRect = None
    /\ bandRect = None
    /\ result = None
    /\ minBytes = 0
    /\ maxBytes = 0
    /\ targetBytes = 0
    /\ lowQuality = 0
    /\ highQuality = 0
    /\ bestBlob = NullBlob
    /\ bestDiff = Infinity
    /\ attempts = 0
    /\ q = 0
    /\ encLog = << >>

\* a call of applySignatureColor(ctx, canvas, targetColor) on its own
ApplySignatureColor ==
    /\ pc = "recolor"
    /\ Recolor
    /\ pc' = "returned"
    /\ UNCHANGED << envVars, caller, progressLog, hook, finalWidth, finalHeight, sourceCanvas,
                    canvas, dateBandHeight, imageAreaHeight, imageRect, bandRect, result,
                    foqVars, firstRun >>

\* pixels given to applySignatureColor: every combination of these channel
\* values and alphas, one pixel of luminance exactly 0.7 and one just below.
\* For none of them, with any of RecolorColors, is the exact blend halfway
\* between two integers, where the rounding of the doubles would decide.
ChannelValues == {0, 10, 100, 178, 179, 255}
Alphas == {0, 127, 128, 255}
RecolorPixels ==
    {Pixel(r, g, b, a) : r \in ChannelValues, g \in ChannelValues, b \in ChannelValues,
                         a \in Alphas}
    \cup {Pixel(18, 252, 221, 255), Pixel(15, 251, 234, 255)}
\* the colours of the picker (#000000, #0000FF, #00008B, #000080, #006400,
\* #8B0000), white, and a string hexToRgb does not match ("#00F")
RecolorColors ==
    {<< 0, 0, 0, 0, 0, 0 >>, Blue, << 0, 0, 0, 0, 8, 11 >>, << 0, 0, 0, 0, 8, 0 >>,
     << 0, 0, 6, 4, 0, 0 >>, << 8, 11, 0, 0, 0, 0 >>, << 15, 15, 15, 15, 15, 15 >>,
     << 0, 0, 15 >>}

\* a call of applySignatureColor on a canvas holding one pixel
InitColor ==
    /\ supportsImageBitmap = TRUE
    /\ supportsOffscreenCanvas \in BOOLEAN
    /\ file \in {f \in Files : f.decodable = "ok"}
    /\ options \in {[o EXCEPT !.signatureColor = Some(c)] :
                       o \in {r \in Requests({}, {}) :
                                 /\ ~ r.addDate
                                 /\ r.targetHeight = 60
                                 /\ r.minSizeKB = 0
                                 /\ r.maxSizeKB = MaxSpecKB
                                 /\ r.signatureColor = None},
                       c \in RecolorColors}
    /\ encKind = "mono"
    /\ thresholds \in JumpEncoders({QualityFloor})
    /\ defaultQuality = QualityCeil
    /\ failingCalls = {}
    /\ cropper = ClosedCropper
    /\ sched = SingleInvocation
    /\ pc = "recolor"
    /\ caller = "harness"
    /\ qualityPreference = 0
    /\ canvas = Some(FinalCanvasOf(options, supportsOffscreenCanvas))
    /\ imageData \in {<< p >> : p \in RecolorPixels}
    /\ InitLocals

\* no more encoder calls than the loop, the final attempt and the 0.05 steps
\* across [0, 1] can make
AllCalls == 1 .. (maxAttempts + 1 + QScale \div FallbackStep)
\* the platform fails never, at one call, or at every call
FailingCallSets == {{}, {1}, {2}, {8}, {9}, AllCalls}

\* a call of findOptimalQuality on a finished canvas whose encoder may fail
InitFail ==
    /\ supportsImageBitmap = TRUE
    /\ supportsOffscreenCanvas \in BOOLEAN
    /\ file \in {f \in Files : f.decodable = "ok"}
    /\ options \in {o \in Requests({PrefFloor + PrefSpan}, {}) :
                       /\ ~ o.addDate
                       /\ o.signatureColor = None
                       /\ o.targetHeight = 230
                       /\ IsSome(o.qualityPreference)}
    /\ encKind = "mono"
    /\ thresholds \in JumpEncoders(PipeThresholdSet)
    /\ defaultQuality = QualityCeil
    /\ failingCalls \in FailingCallSets
    /\ cropper = ClosedCropper
    /\ sched = SingleInvocation
    /\ pc = "foq_enter"
    /\ caller = "harness"
    /\ qualityPreference = PreferenceOf(options)
    /\ canvas = Some(FinalCanvasOf(options, supportsOffscreenCanvas))
    /\ imageData = DrawnPixels(file)
    /\ InitLocals

\* a call of findOptimalQuality with an encoder that may return any size at
\* any call, the preference at either end of its range
InitTerm ==
    /\ InitEnc
    /\ encKind = "any"
    /\ qualityPreference \in {PrefFloor, PrefFloor + PrefSpan}

FindOptimalQuality ==
    \/ FOQ_Enter
    \/ FOQ_Loop
    \/ FOQ_LoopExit
    \/ FOQ_Final
    \/ FOQ_Decrease
    \/ FOQ_Increase
    \/ FOQ_Return

Next ==
    \/ Start
    \/ S1_Decode
    \/ S1_Rotate
    \/ S1_Canvas
    \/ S1_Recolor
    \/ S1_Date
    \/ S2_Read
    \/ S2_Load
    \/ S2_Rotate
    \/ S2_Canvas
    \/ S2_Recolor
    \/ S2_Date
    \/ FindOptimalQuality
    \/ Finish

NextEnc ==
    \/ FindOptimalQuality
    \/ Recall

(***************************************************************************)
(* The page: user events, the runs of processImage and the event loop.     *)
(* A handler runs to its await without interruption; the continuations of  *)
(* processImage and of the handler are microtasks, which run before the    *)
(* next user event.  The ProcessingOverlay covers the page while the hook  *)
(* is processing but disables no control: a key press or a drag of the     *)
(* range input still reaches its handler.                                  *)
(***************************************************************************)
\* what no handler of the page touches
platformVars == << supportsImageBitmap, supportsOffscreenCanvas, encKind, defaultQuality,
                   failingCalls, cropper, sched, firstRun >>
\* the arguments and locals of the invocation the event loop is running
invocationVars == << file, options, thresholds, pc, caller, progressLog, ops, pipeVars,
                     foqVars >>

\* a run of processImage: the handler that started it, how far it has come
\* ("wasm": inside processImageWASM; "hooked": processImage has settled;
\* "done": the handler has finished), the locals of its processImageWASM while
\* another run has the event loop, and what processImage returned or that it
\* threw
NewRun(handler) ==
    [handler |-> handler, phase |-> "wasm", ctx |-> None, outcome |-> "pending",
     returned |-> None]

InFlight(i) == IF i = 0 THEN FALSE ELSE page.runs[i].phase = "wasm"

\* no JavaScript is running and no continuation is queued: every run that is
\* not finished waits for the platform
AtRest ==
    IF page.current = 0 THEN TRUE
    ELSE IF page.runs[page.current].phase = "wasm" THEN pc \in SuspensionPoints
    ELSE page.runs[page.current].phase = "done"

\* the runs, with the locals of the running one put aside
Suspended ==
    IF InFlight(page.current)
    THEN [page.runs EXCEPT ![page.current].ctx = Some(Current)]
    ELSE page.runs

\* processImage(file, cropArea, signatureColorOverride) up to its first await
\* (lines 196-222): setState(processing), the options, and the call of
\* processImageWASM, which the event loop runs next.  The store of the call is
\* the one of the last render.
StartRun(handler, f, cropArea, override) ==
    /\ Len(page.runs) < MaxRuns
    /\ Cardinality({i \in 1 .. Len(page.runs) : page.runs[i].phase # "done"}) < MaxInFlight
    /\ hook' = HookProcessing
    /\ page' = [page EXCEPT
         !.runs = Append(Suspended, NewRun(handler)),
         !.current = Len(page.runs) + 1,
         !.isReprocessing = (handler # "crop") \/ @]
    /\ Load(Called([file |-> f,
                    thresholds |->
                       PageEncoder(ProcessOptionsOf(HookArgs(store), cropArea, override)),
                    options |-> ProcessOptionsOf(HookArgs(store), cropArea, override)]))

\* {processorState.step === 'processing' && <ProcessingOverlay .../>}: the
\* overlay takes the pointer's clicks
OverlayShown == hook.step = "processing"

\* a handler that only calls setters of the store, reached by a click
OnlyStore(st) ==
    /\ AtRest
    /\ ~ OverlayShown
    /\ store' = st
    /\ UNCHANGED << platformVars, invocationVars, hook, page >>

\* onPresetSelect={setPreset}
SelectPreset == \E preset \in ExamPresets : OnlyStore(setPreset(store, preset))

\* onTypeSelect={setType}; the toggle is shown for a preset that is not custom
SelectType ==
    /\ IsSome(store.selectedPreset)
    /\ ~ store.isCustomMode
    /\ \E type \in {"photo", "signature"} : OnlyStore(setType(store, type))

\* onClick={() => setDarkMode(!darkMode)}
ToggleDarkMode == OnlyStore(setDarkMode(store, ~ store.darkMode))

\* the colour picker of the preset section: onColorChange={setSignatureColor}
PickColor ==
    /\ store.selectedType = "signature"
    /\ store.processedResult = None
    /\ \E color \in PickerColors : OnlyStore(setSignatureColor(store, color))

\* handleFileSelect: setUploadedFile(file, imageUrl)
HandleFileSelect ==
    /\ IsSome(store.selectedPreset)
    /\ store.processedResult = None
    /\ \E f \in UploadFiles : OnlyStore(setUploadedFile(store, Some(f), Some("blob:")))

CropperShown ==
    store.showCropper /\ IsSome(store.uploadedImageUrl) /\ IsSome(currentSpec(store))

\* onCancel of the cropper: setShowCropper(false); setUploadedFile(null, null)
CancelCrop ==
    /\ CropperShown
    /\ OnlyStore(setUploadedFile(setShowCropper(store, FALSE), None, None))

\* handleCropComplete(cropArea) of the page, up to its await (lines 107-112)
PageCropComplete ==
    /\ AtRest
    /\ CropperShown
    /\ IsSome(store.uploadedFile)
    /\ \E cropArea \in PageCropAreas :
         /\ store' = setLastCropArea(store, Some(cropArea))
         /\ StartRun("crop", Get(store.uploadedFile), Some(cropArea), None)
    /\ UNCHANGED platformVars

ResultShown ==
    IsSome(store.processedResult) /\ IsSome(currentSpec(store)) /\ IsSome(store.uploadedFile)

\* the guard of both reprocessing handlers
CanReprocess ==
    IsSome(store.lastCropArea) /\ IsSome(store.uploadedFile) /\ IsSome(currentSpec(store))

\* onColorChange of the result section (lines 389-404), up to its await
ColorChange ==
    /\ AtRest
    /\ ResultShown
    /\ store.selectedType = "signature"
    /\ \E color \in PickerColors :
         /\ store' = setSignatureColor(store, color)
         /\ IF CanReprocess
            THEN StartRun("color", Get(store.uploadedFile), store.lastCropArea,
                          Some(color))
            ELSE UNCHANGED << invocationVars, hook, page >>
    /\ UNCHANGED platformVars

\* onChange of the quality slider of the result section (lines 418-432), up to
\* its await: processImage(uploadedFile, lastCropArea, signatureColor, quality),
\* whose fourth argument processImage does not have
QualityChange ==
    /\ AtRest
    /\ ResultShown
    /\ \E quality \in SliderValues :
         /\ store' = setOutputQuality(store, quality)
         /\ IF CanReprocess
            THEN StartRun("quality", Get(store.uploadedFile), store.lastCropArea,
                          Some(store.signatureColor))
            ELSE UNCHANGED << invocationVars, hook, page >>
    /\ UNCHANGED platformVars

\* handleReset: reset()
HandleReset ==
    /\ ResultShown
    /\ OnlyStore(reset(store))

\* the platform finishes what another run waits for: the event loop continues
\* that run
ResumeRun ==
    /\ AtRest
    /\ \E i \in 1 .. Len(page.runs) :
         /\ i # page.current
         /\ InFlight(i)
         /\ page' = [page EXCEPT !.runs = [Suspended EXCEPT ![i].ctx = None],
                                 !.current = i]
         /\ Load(Get(page.runs[i].ctx))
    /\ UNCHANGED << platformVars, store, hook >>

\* processImage after await processImageWASM (lines 224-245): setState(complete)
\* and the ProcessedResult, or the catch block, which rethrows
ProcessImageSettles ==
    /\ InFlight(page.current)
    /\ pc \in Settled
    /\ IF pc = "resolved"
       THEN /\ hook' = HookComplete
            /\ page' = [page EXCEPT
                 !.runs[page.current].phase = "hooked",
                 !.runs[page.current].outcome = "returned",
                 !.runs[page.current].returned =
                    Some(ProcessedResultOf(Get(result), page.current))]
       ELSE /\ hook' = HookFailed(hook)
            /\ page' = [page EXCEPT !.runs[page.current].phase = "hooked",
                                    !.runs[page.current].outcome = "threw"]
    /\ UNCHANGED << platformVars, invocationVars, store >>

\* the handler after await processImage: setProcessedResult(result), or the
\* catch block (console.error); the reprocessing handlers end with
\* setIsReprocessing(false)
HandlerSettles ==
    /\ page.current # 0
    /\ IF page.current = 0 THEN FALSE ELSE page.runs[page.current].phase = "hooked"
    /\ store' = IF page.runs[page.current].outcome = "returned"
                THEN setProcessedResult(store, page.runs[page.current].returned)
                ELSE store
    /\ page' = [page EXCEPT !.runs[page.current].phase = "done",
                            !.runs[page.current].returned = None,
                            !.isReprocessing =
                               IF page.runs[page.current].handler = "crop" THEN @ ELSE FALSE]
    /\ UNCHANGED << platformVars, invocationVars, hook >>

\* processImageWASM of the running invocation
ProcessImageWASM ==
    /\ InFlight(page.current)
    /\ Next

\* the page is open: nothing selected, nothing uploaded, nothing processed
InitPage ==
    /\ supportsImageBitmap \in BOOLEAN
    /\ supportsOffscreenCanvas = supportsImageBitmap
    /\ failingCalls = IF supportsImageBitmap THEN {8} ELSE {}
    /\ file = CHOOSE f \in UploadFiles : f.decodable = "ok"
    /\ options = ProcessOptionsOf(HookArgs(initialState), None, None)
    /\ encKind = "mono"
    /\ thresholds = PageEncoder(options)
    /\ defaultQuality = QualityCeil
    /\ cropper = ClosedCropper
    /\ sched = SingleInvocation
    /\ pc = "idle"
    /\ caller = "processImageWASM"
    /\ qualityPreference = 0
    /\ canvas = None
    /\ imageData = << >>
    /\ InitLocals

NextPage ==
    \/ SelectPreset
    \/ SelectType
    \/ ToggleDarkMode
    \/ PickColor
    \/ HandleFileSelect
    \/ CancelCrop
    \/ PageCropComplete
    \/ ColorChange
    \/ QualityChange
    \/ HandleReset
    \/ ResumeRun
    \/ ProcessImageWASM
    \/ ProcessImageSettles
    \/ HandlerSettles


NextFail == FindOptimalQuality
NextTerm == FindOptimalQuality
NextColor == ApplySignatureColor
NextConcurrent ==
    \/ Next
    \/ CallSecondAlone
    \/ CallOverlapping
    \/ Switch
NextCrop ==
    \/ RotateLeft
    \/ RotateRight
    \/ HandleCropComplete
    \/ HandleConfirm
    \/ Start
    \/ S1_Decode
    \/ S1_Rotate

Spec == Init /\ [][Next]_vars
SpecEnc == InitEnc /\ [][NextEnc]_vars
\* every encoder call returns and the event loop continues the call
SpecTerm == InitTerm /\ [][NextTerm]_vars /\ WF_vars(NextTerm)
SpecPage == InitPage /\ [][NextPage]_vars
SpecFail == InitFail /\ [][NextFail]_vars
SpecColor == InitColor /\ [][NextColor]_vars
SpecCrop == InitCrop /\ [][NextCrop]_vars
SpecConcurrent == InitConcurrent /\ [][NextConcurrent]_vars


(***************************************************************************)
(* Claims.                                                                 *)
(***************************************************************************)
NonDecreasing(log) == \A i \in 1 .. Len(log) - 1 : log[i] <= log[i + 1]
InFindOptimalQuality ==
    pc \in {"foq_loop", "foq_final", "foq_decrease", "foq_increase", "foq_return"}
AfterTargetBytes == InFindOptimalQuality \/ pc \in {"finish", "resolved", "returned"}
Encodes(log) == {i \in 1 .. Len(log) : log[i] = "encode"}

\* C1: for targetWidth > 0 and targetHeight > 0, with or without addDate, crop
\* and rotation, the final canvas (the one every encoder call reads) is exactly
\* targetWidth x targetHeight, the returned width and height are targetWidth
\* and targetHeight, and the date band and the image rows together fill the
\* target height: the band is carved out of it, never added to it.
C1_OutputDimensions ==
    /\ IsSome(canvas) =>
         /\ Get(canvas).width = options.targetWidth
         /\ Get(canvas).height = options.targetHeight
    /\ Encodes(ops) # {} => IsSome(canvas)
    /\ IsSome(imageRect) =>
         /\ Get(imageRect).y = dateBandHeight
         /\ Get(imageRect).y + Get(imageRect).height = Get(canvas).height
         /\ Get(imageRect).width = Get(canvas).width
    /\ IsSome(bandRect) =>
         /\ Get(bandRect).y = 0
         /\ Get(bandRect).height + Get(imageRect).height = options.targetHeight
    /\ IsSome(result) =>
         /\ Get(result).width = options.targetWidth
         /\ Get(result).height = options.targetHeight
         /\ Get(result).width = Get(canvas).width
         /\ Get(result).height = Get(canvas).height

C1_Witness ==
    /\ pc = "resolved"
    /\ IsSome(result)
    /\ options.addDate
    /\ IsSome(bandRect)
    /\ Get(bandRect).height > 0
    /\ IsSome(options.cropArea)
    /\ RotationOf(options) # 0

\* the qualities of [0.1, 1.0] at which a step encoder's size changes: it
\* attains a size somewhere in [0.1, 1.0] iff it attains it at one of these
StepQualities(thr) ==
    {QualityFloor} \cup
    {thr[i] : i \in {j \in 1 .. Len(thr) : thr[j] >= QualityFloor /\ thr[j] <= QualityCeil}}
Achievable(thr, minB, maxB) ==
    \E quality \in StepQualities(thr) : InBounds(MonoSize(thr, quality), minB, maxB)

\* C2: for an encoder whose size is non-decreasing in quality, if some quality
\* in [0.1, 1.0] encodes to a size in [minBytes, maxBytes], the blob returned
\* by findOptimalQuality has its size in [minBytes, maxBytes].
C2_InBoundsWhenAchievable ==
    (/\ pc = "returned"
     /\ encKind = "mono"
     /\ Achievable(thresholds, minBytes, maxBytes))
    => (bestBlob.size >= minBytes /\ bestBlob.size <= maxBytes)

\* C3: targetBytes = minBytes + (maxBytes - minBytes) * clamp((preference - 30) / 70, 0, 1):
\* a preference <= 30 gives minBytes, a preference >= 100 gives maxBytes, and
\* when minBytes <= maxBytes the target lies in [minBytes, maxBytes] and does
\* not decrease when the preference goes from 30 to 100 or from any lower to
\* any higher preference.  (targetBytes is kept multiplied by 70.)
C3_ClosedForm(minB, maxB, preference) ==
    IF preference <= 30 THEN 70 * minB
    ELSE IF preference >= 100 THEN 70 * maxB
    ELSE 70 * minB + (maxB - minB) * (preference - 30)

C3_TargetBytes ==
    AfterTargetBytes =>
      /\ targetBytes = C3_ClosedForm(minBytes, maxBytes, qualityPreference)
      /\ qualityPreference <= 30 => targetBytes = 70 * minBytes
      /\ qualityPreference >= 100 => targetBytes = 70 * maxBytes
      /\ minBytes <= maxBytes =>
           /\ 70 * minBytes <= targetBytes
           /\ targetBytes <= 70 * maxBytes
           /\ \A lower \in Preferences :
                lower <= qualityPreference =>
                  C3_ClosedForm(minBytes, maxBytes, lower) <= targetBytes
           /\ IsSome(firstRun) => Get(firstRun).targetBytes <= targetBytes

C3_Witness ==
    /\ pc = "foq_loop"
    /\ qualityPreference = 80
    /\ minBytes < maxBytes
    /\ targetBytes > 70 * minBytes
    /\ targetBytes < 70 * maxBytes

\* C4: a request without qualityPreference is processed as with
\* qualityPreference = 80: targetBytes = minBytes + (maxBytes - minBytes) * (80 - 30) / 70.
C4_OmittedPreferenceIs80 ==
    (AfterTargetBytes /\ options.qualityPreference = None)
    => targetBytes = 70 * minBytes + (maxBytes - minBytes) * (80 - 30)

\* C5: for a fixed canvas, fixed minBytes <= maxBytes and an encoder whose size
\* is non-decreasing in quality, the size returned with qualityPreference = 100
\* is at least the size returned with qualityPreference = 30.
C5_MonotonicBias ==
    (/\ pc = "returned"
     /\ IsSome(firstRun)
     /\ encKind = "mono"
     /\ minBytes <= maxBytes)
    => (/\ Get(firstRun).qualityPreference = 30
        /\ qualityPreference = 100
        /\ bestBlob.size >= Get(firstRun).size)

C5_Witness ==
    /\ pc = "returned"
    /\ IsSome(firstRun)
    /\ minBytes < maxBytes
    /\ bestBlob.size > Get(firstRun).size
    /\ InBounds(Get(firstRun).size, minBytes, maxBytes)

\* C6: the binary-search loop makes at most 12 encoder evaluations whatever
\* the encoder returns, one per iteration, and it is left at the first test
\* that finds highQuality - lowQuality <= 0.01 or 12 evaluations made.
C6_AtMost12 ==
    /\ attempts <= 12
    /\ pc = "foq_loop" => Len(encLog) = attempts

C6_LoopStep ==
    pc = "foq_loop" =>
      IF attempts < 12 /\ (highQuality - lowQuality) * 100 > QScale
      THEN /\ pc' = "foq_loop"
           /\ attempts' = attempts + 1
           /\ Len(encLog') = Len(encLog) + 1
      ELSE /\ pc' # "foq_loop"
           /\ encLog' = encLog
           /\ attempts' = attempts

C6_LoopBound == [] C6_AtMost12 /\ [][C6_LoopStep]_vars

C6_Witness ==
    /\ pc = "foq_final"
    /\ encKind = "any"
    /\ attempts > 0
    /\ (highQuality - lowQuality) * 100 <= QScale

\* C7: within one invocation of processImageWASM, on either strategy and
\* including the values reported inside findOptimalQuality, the values passed
\* to onProgress never decrease and all lie in [0, 100].
C7_ProgressMonotone ==
    /\ NonDecreasing(progressLog)
    /\ \A i \in 1 .. Len(progressLog) : progressLog[i] >= 0 /\ progressLog[i] <= 100 * 12

C7_Witness ==
    /\ pc = "resolved"
    /\ ~ supportsImageBitmap
    /\ \E i \in 1 .. Len(progressLog) : progressLog[i] = 80 * 12
    /\ \E i \in 1 .. Len(progressLog) : progressLog[i] = 60 * 12

\* C8 (as stated): on a successful invocation the last value passed to
\* onProgress before the result is returned is 100.
C8_LastProgressIs100 ==
    pc = "resolved" => progressLog[Len(progressLog)] = 100 * 12

\* C8 (amended): on a successful invocation the last value passed to
\* onProgress before the result is returned is 95, and processImageWASM never
\* reports 100.
C8_LastProgressIs95 ==
    /\ pc = "resolved" =>
         /\ IsSome(result)
         /\ progressLog[Len(progressLog)] = 95 * 12
    /\ \A i \in 1 .. Len(progressLog) : progressLog[i] < 100 * 12

C8_Witness ==
    /\ pc = "resolved"
    /\ IsSome(result)
    /\ Len(progressLog) > 2
    /\ progressLog[Len(progressLog) - 1] = 95 * 12

\* C9: a request with targetWidth <= 0, targetHeight <= 0 or minBytes > maxBytes
\* is rejected before the source is decoded into a canvas, before any canvas is
\* allocated and before any encoder call, and no result is returned for it.
C9_InvalidRequestRejected ==
    (\/ options.targetWidth <= 0
     \/ options.targetHeight <= 0
     \/ options.minSizeKB > options.maxSizeKB)
    => (/\ ops = << >>
        /\ sourceCanvas = None
        /\ canvas = None
        /\ encLog = << >>
        /\ result = None)

\* C10: if decoding the source fails (createImageBitmap rejects, or the
\* FileReader or the Image fails on the fallback strategy) the invocation
\* rejects at that await: no rotation, final canvas, recolor, date band or
\* encode runs, no progress value follows the one reported before the failing
\* await, and no result is returned.
C10_DecodeFailureRejects ==
    /\ file.decodable # "ok" =>
         /\ pc \in {"start", "s1_decode", "s2_read", "s2_load", "rejected"}
         /\ ops = << >>
         /\ sourceCanvas = None
         /\ canvas = None
         /\ encLog = << >>
         /\ result = None
    /\ pc = "rejected" =>
         /\ file.decodable # "ok"
         /\ progressLog = IF ~ supportsImageBitmap /\ file.decodable = "corrupt"
                          THEN << 5 * 12, 10 * 12, 20 * 12 >>
                          ELSE << 5 * 12, 10 * 12 >>
    /\ pc = "resolved" => file.decodable = "ok"

C10_Witness ==
    /\ pc = "rejected"
    /\ ~ supportsImageBitmap
    /\ file.decodable = "corrupt"
    /\ Len(progressLog) = 3

\* the encoder calls made so far that produced no blob
FailedCalls == {i \in 1 .. Len(encLog) : i \in failingCalls}

\* C11: findOptimalQuality fails on the encoder only when the binary search and
\* the fallback steps are exhausted: a failed encode at one quality does not
\* end the call while the loop has midpoints left to try, and when the call
\* fails the encoder has failed at every quality it was given.
C11_FailureOnlyAfterExhaustion ==
    pc = "rejected" =>
      /\ FailedCalls = 1 .. Len(encLog)
      /\ ~ LoopContinues(attempts, lowQuality, highQuality)

C13_IsRounded(k, target, luma) ==
    LET twice == 2 * (255 * 178500 - (255 - target) * (178500 - luma))
    IN  /\ (2 * k - 1) * 178500 <= twice
        /\ twice <= (2 * k + 1) * 178500

C13_Agrees(p, c, out) ==
    LET luma == 299 * p.r + 587 * p.g + 114 * p.b
    IN  /\ out.a = 255
        /\ p.a < 128 => out = Pixel(255, 255, 255, 255)
        /\ (p.a >= 128 /\ 10 * luma >= 7 * 255000) => out = Pixel(255, 255, 255, 255)
        /\ (p.a >= 128 /\ 10 * luma < 7 * 255000) =>
             /\ C13_IsRounded(out.r, c.r, luma)
             /\ C13_IsRounded(out.g, c.g, luma)
             /\ C13_IsRounded(out.b, c.b, luma)
        /\ (p.a >= 128 /\ luma = 0) => out = Pixel(c.r, c.g, c.b, 255)

\* C13: applySignatureColor maps every pixel as the piecewise map says: alpha
\* below 128 gives opaque white; otherwise luminance >= 0.7 gives opaque white
\* and luminance < 0.7 gives round(255 - (255 - C) * (1 - L / 0.7)) in each
\* channel with alpha 255, so that luminance 0 gives exactly C; every pixel
\* comes out with alpha 255; (10, 10, 10, 255) with #0000FF gives
\* (14, 14, 255, 255).
C13_RecolorStep ==
    pc = "recolor" =>
      /\ Len(imageData') = Len(imageData)
      /\ \A i \in 1 .. Len(imageData) :
           /\ C13_Agrees(imageData[i], hexToRgb(Get(options.signatureColor)),
                         imageData'[i])
           /\ (Get(options.signatureColor) = << 0, 0, 0, 0, 15, 15 >>
               /\ imageData[i] = Pixel(10, 10, 10, 255))
              => imageData'[i] = Pixel(14, 14, 255, 255)
      /\ Get(options.signatureColor) = << 0, 0, 0, 0, 15, 15 >>
           => hexToRgb(Get(options.signatureColor)) = [r |-> 0, g |-> 0, b |-> 255]

C14_Source == SourceCanvasOf(file, RotationOf(options))

\* C14: without a crop rectangle the draw reads a centred source rectangle of
\* ratio targetWidth / imageAreaHeight (the full height and a centred part of
\* the width when the source is wider than the target ratio, otherwise the
\* full width and a centred part of the height), which lies inside the
\* source, on the createImageBitmap strategy and on the fallback strategy
\* alike.  (Source rectangles are multiplied by 2 * targetWidth * imageAreaHeight.)
C14_CentreCrop ==
    (IsSome(imageRect) /\ options.cropArea = None) =>
      LET r == Get(imageRect).source
          scale == 2 * options.targetWidth * imageAreaHeight
          W == scale * C14_Source.width
          H == scale * C14_Source.height
      IN  \* width * imageAreaHeight = height * targetWidth, in true pixels
          /\ r.width % (2 * options.targetWidth) = 0
          /\ r.height % (2 * imageAreaHeight) = 0
          /\ r.width \div (2 * options.targetWidth) = r.height \div (2 * imageAreaHeight)
          /\ r.x >= 0 /\ r.y >= 0 /\ r.x + r.width <= W /\ r.y + r.height <= H
          /\ 2 * r.x + r.width = W
          /\ 2 * r.y + r.height = H
          /\ r.width = W \/ r.height = H

\* C15: for a w x h source and a rotation of 0, 90, 180 or 270 degrees the
\* intermediate canvas is w x h for 0 and 180 and h x w for 90 and 270, in
\* whole pixels: the bounding box is as large as the rotated content along
\* both axes.
C15_RotatedBoundingBox ==
    (IsSome(sourceCanvas) /\ IsSome(options.cropArea)
       /\ Get(options.cropArea).rotation \in {0, 90, 180, 270}) =>
      LET rotation == Get(options.cropArea).rotation
          box == Get(sourceCanvas)
      IN  /\ rotation \in {0, 180} =>
               (box.width = file.width /\ box.height = file.height)
          /\ rotation \in {90, 270} =>
               (box.width = file.height /\ box.height = file.width)
          /\ box.width >= (IF rotation \in {90, 270} THEN file.height ELSE file.width)
          /\ box.height >= (IF rotation \in {90, 270} THEN file.width ELSE file.height)

C15_Witness ==
    /\ pc = "resolved"
    /\ ~ supportsImageBitmap
    /\ RotationOf(options) = 270
    /\ sourceCanvas = Some([width |-> 1200, height |-> 1000])
    /\ "rotate" \in {ops[i] : i \in 1 .. Len(ops)}

\* C16: after any sequence of rotate-left and rotate-right clicks, the
\* rotation the ImageCropper hands over in cropArea.rotation, which
\* processImageWASM uses as it is, lies in [0, 360).
C16_RotationNormalised ==
    IsSome(options.cropArea) =>
      /\ Get(options.cropArea).rotation >= 0
      /\ Get(options.cropArea).rotation < 360
      /\ RotationOf(options) >= 0
      /\ RotationOf(options) < 360

C18_Size(i) ==
    MonoSize(thresholds, IF encLog[i] >= 0 /\ encLog[i] <= QScale
                         THEN encLog[i] ELSE defaultQuality)
\* |size - targetBytes| of the i-th encode, times 70
C18_Diff(i) == Abs(70 * C18_Size(i) - targetBytes)
\* the loop's encodes whose size is in [minBytes, maxBytes]
C18_InBoundsLoopEncodes ==
    {i \in 1 .. attempts : C18_Size(i) >= minBytes /\ C18_Size(i) <= maxBytes}

\* C18: if a midpoint encode of the binary-search loop has its size in
\* [minBytes, maxBytes], findOptimalQuality returns, with no encoder call after
\* the loop, the in-bounds loop blob with the least |size - targetBytes|, the
\* earliest one among equals; a blob outside the bounds is never recorded in
\* the loop, however close to targetBytes it is.
C18_BestInBoundsBlob ==
    /\ (pc = "foq_loop" /\ ~ bestBlob.null) =>
         (bestBlob.size >= minBytes /\ bestBlob.size <= maxBytes)
    /\ (encKind = "mono" /\ pc \in {"foq_loop", "foq_return", "returned"}
          /\ attempts <= Len(encLog)) =>
         IF C18_InBoundsLoopEncodes = {}
         THEN pc = "foq_loop" => bestBlob.null
         ELSE /\ \E j \in C18_InBoundsLoopEncodes :
                   /\ \A i \in C18_InBoundsLoopEncodes :
                        \/ C18_Diff(j) < C18_Diff(i)
                        \/ C18_Diff(j) = C18_Diff(i) /\ j <= i
                   /\ bestBlob = [null |-> FALSE, size |-> C18_Size(j),
                                  quality |-> encLog[j]]
              /\ Len(encLog) = attempts

C18_Witness ==
    /\ pc = "returned"
    /\ encKind = "mono"
    /\ Len(encLog) = attempts
    /\ C18_InBoundsLoopEncodes # {}
    /\ \E i \in 1 .. attempts :
         /\ C18_Size(i) > maxBytes
         /\ C18_Diff(i) < Abs(70 * bestBlob.size - targetBytes)

\* C19: every quality findOptimalQuality passes to the encoder - in the loop,
\* at the final midpoint and in both 0.05-step fallbacks - lies in [0.1, 1.0].
C19_QualitiesInRange ==
    \A i \in 1 .. Len(encLog) :
      /\ 10 * encLog[i] >= QScale
      /\ encLog[i] <= QScale

\* the encodes of the call after the loop: the final midpoint and the fallback
C20_AfterLoop == (attempts + 1) .. Len(encLog)

\* in the decreasing fallback every encode but the latest was above maxBytes
\* (for an encoder with a size function), and each is 0.05 below the one before
C20_Descent ==
    /\ Len(encLog) >= attempts + 1
    /\ \A i \in C20_AfterLoop :
         i > attempts + 1 => 20 * (encLog[i - 1] - encLog[i]) = QScale
    /\ bestBlob.quality = encLog[Len(encLog)]
    /\ q = encLog[Len(encLog)]
    /\ encKind = "mono" =>
         \A i \in C20_AfterLoop :
           i < Len(encLog) =>
             KB * Cardinality({k \in 1 .. Len(thresholds) :
                                 thresholds[k] <= (IF encLog[i] >= 0 /\ encLog[i] <= QScale
                                                   THEN encLog[i] ELSE defaultQuality)})
               > maxBytes

C20_Returned ==
    /\ pc = "foq_decrease" => C20_Descent
    /\ (pc \in {"foq_return", "returned"} /\ bestBlob.size > maxBytes) =>
         /\ C20_Descent
         /\ Len(encLog) > attempts + 1
         /\ 10 * encLog[Len(encLog)] <= QScale

C20_Step ==
    /\ (pc = "foq_final" /\ pc' # "rejected") =>
         (pc' = "foq_decrease" <=> bestBlob'.size > maxBytes)
    /\ pc = "foq_decrease" =>
         IF bestBlob.size <= maxBytes \/ 10 * q <= QScale
         THEN pc' = "foq_return" /\ bestBlob' = bestBlob /\ encLog' = encLog
         ELSE /\ pc' = "foq_decrease"
              /\ encLog' = Append(encLog, q - QScale \div 20)
              /\ bestBlob'.quality = q - QScale \div 20
    /\ (pc = "foq_return" /\ pc' # "foq_return") => bestBlob' = bestBlob

\* C20: when no in-bounds blob was recorded and the final-midpoint encode is
\* above maxBytes, the quality is lowered by 0.05 per step until the first
\* encode of size <= maxBytes, which is returned; so a returned blob larger
\* than maxBytes means the decreasing fallback ran down to its floor (its
\* last quality is at most 0.1) and the encode at that lowest quality was
\* still above maxBytes.
C20_DecreasingFallback == [] C20_Returned /\ [][C20_Step]_vars

C20_Witness ==
    /\ pc = "returned"
    /\ bestBlob.size > maxBytes
    /\ Len(encLog) > attempts + 3
    /\ 10 * bestBlob.quality <= QScale

\* the increasing fallback has made at least one step: the encode after the
\* final midpoint is at a higher quality
C21_Increased ==
    /\ Len(encLog) > attempts + 1
    /\ encLog[attempts + 2] > encLog[attempts + 1]

\* the candidates of the increasing fallback rise by 0.05 from the final midpoint
C21_Ascent ==
    /\ Len(encLog) >= attempts + 1
    /\ q = encLog[Len(encLog)]
    /\ \A i \in (attempts + 2) .. Len(encLog) :
         20 * (encLog[i] - encLog[i - 1]) = QScale

C21_Returned ==
    /\ pc = "foq_increase" =>
         /\ C21_Ascent
         /\ bestBlob.size <= maxBytes
         /\ bestBlob.quality = q
    /\ (pc \in {"foq_return", "returned"} /\ ~ bestBlob.null /\ C21_Increased) =>
         /\ C21_Ascent
         /\ bestBlob.size <= maxBytes
         \* the kept blob is the latest candidate, or the one before it when the
         \* latest was above maxBytes
         /\ \/ bestBlob.quality = encLog[Len(encLog)]
            \/ bestBlob.quality = encLog[Len(encLog) - 1]
         \* a blob still below minBytes: the ceiling was reached or the last
         \* candidate was dropped
         /\ bestBlob.size < minBytes =>
              \/ encLog[Len(encLog)] >= QScale
              \/ bestBlob.quality = encLog[Len(encLog) - 1]

C21_Step ==
    /\ (pc = "foq_final" /\ pc' # "rejected") =>
         (pc' = "foq_increase" <=>
            (bestBlob'.size <= maxBytes /\ bestBlob'.size < minBytes))
    /\ pc = "foq_increase" =>
         IF bestBlob.size >= minBytes \/ q >= QScale
         THEN pc' = "foq_return" /\ bestBlob' = bestBlob /\ encLog' = encLog
         ELSE /\ encLog' = Append(encLog, q + QScale \div 20)
              /\ \/ /\ pc' = "foq_increase"
                    /\ bestBlob'.quality = q + QScale \div 20
                    /\ bestBlob'.size <= maxBytes
                 \/ /\ pc' = "foq_return"
                    /\ bestBlob' = bestBlob
              /\ encKind = "mono" =>
                   (pc' = "foq_return" <=>
                      MonoSize(thresholds,
                               EffectiveQuality(q + QScale \div 20, defaultQuality))
                        > maxBytes)

\* C21: when no in-bounds blob was recorded and the final-midpoint encode is
\* below minBytes, the quality is raised by 0.05 per step; a candidate is kept
\* only if its size is <= maxBytes and the first candidate above maxBytes ends
\* the loop, so the blob returned from this branch never exceeds maxBytes; the
\* loop stops as soon as the kept blob's size is >= minBytes.
C21_IncreasingFallback == [] C21_Returned /\ [][C21_Step]_vars

C21_Witness ==
    /\ pc = "returned"
    /\ C21_Increased
    /\ Len(encLog) > attempts + 2
    /\ bestBlob.size < minBytes
    /\ bestBlob.quality = encLog[Len(encLog) - 1]
    /\ encLog[Len(encLog)] < QScale

\* the positions of findOptimalQuality after the binary-search loop
C29_AfterLoop == pc \in {"foq_final", "foq_decrease", "foq_increase", "foq_return", "returned"}

\* C29: the search interval starts at width 0.9 and is halved by every
\* iteration, so the binary-search loop makes exactly 7 encoder evaluations
\* for every encoder and every min/max/preference: it is left by the width
\* test (0.9 / 128 <= 0.01 < 0.9 / 64), never by the cap of 12;
\* 0.1 <= lowQuality <= highQuality <= 1.0 holds throughout, and the largest
\* progress value the loop reports is 65 + (6 / 12) * 30 = 80.
C29_SevenEvaluations ==
    /\ (pc = "foq_loop" \/ C29_AfterLoop) =>
         /\ 10 * lowQuality >= QScale
         /\ lowQuality <= highQuality
         /\ highQuality <= QScale
         /\ (highQuality - lowQuality) * (2 ^ attempts) * 10 = 9 * QScale
    /\ pc = "foq_loop" =>
         /\ attempts <= 7
         /\ Len(encLog) = attempts
         /\ Len(progressLog) = attempts + 1
         /\ (attempts < 12 /\ (highQuality - lowQuality) * 100 > QScale) <=> attempts < 7
    /\ C29_AfterLoop =>
         /\ attempts = 7
         /\ Len(encLog) >= 7
         /\ Len(progressLog) >= 8
         /\ \A i \in 1 .. 7 : progressLog[i + 1] = 12 * 65 + (i - 1) * 30
         /\ progressLog[8] = 12 * 80

C29_Witness ==
    /\ pc = "returned"
    /\ encKind = "any"
    /\ attempts = 7
    /\ Len(encLog) = 7
    /\ minBytes = maxBytes
    /\ lowQuality > QScale \div 10
    /\ highQuality < QScale

\* at most 12 + 1 + 18 encoder calls; what is returned is a blob one of them made
C30_Bounded ==
    /\ Len(encLog) <= 12 + 1 + 18
    /\ pc \in {"foq_return", "returned"} =>
         /\ ~ bestBlob.null
         /\ \E i \in 1 .. Len(encLog) : encLog[i] = bestBlob.quality
         /\ bestBlob.size \in BlobSizes

\* C30: findOptimalQuality terminates for every encoder size function
\* (constant, non-monotone, always out of bounds) provided each encoder call
\* returns: it makes at most 12 + 1 + 18 = 31 encoder calls and returns a
\* non-null blob that one of those calls produced.
C30_Terminates == [] C30_Bounded /\ (pc = "foq_enter" ~> pc = "returned")

\* the longest run: seven evaluations, the final midpoint and eighteen steps down
C30_Witness ==
    /\ pc = "returned"
    /\ encKind = "any"
    /\ Len(encLog) = 7 + 1 + 18

\* the canvas operations of an invocation, in the order the claim gives them
C22_CanvasOps ==
    << "decode" >>
    \o (IF RotationOf(options) # 0 THEN << "allocSource", "fillSource", "rotate" >>
        ELSE IF supportsImageBitmap THEN << "allocSource", "copySource" >>
        ELSE << >>)
    \o << "allocFinal", "fillFinal", "draw" >>
    \o (IF IsSome(options.signatureColor) THEN << "recolor" >> ELSE << >>)
    \o (IF options.addDate THEN << "band" >> ELSE << >>)

\* C22: in every invocation of processImageWASM the canvas operations happen
\* in the order decode, rotate (if rotation # 0), white fill of the final
\* canvas, crop/scale draw, recolor (if signatureColor is set), date band (if
\* addDate is set), and then the encoding: the band is the last canvas
\* mutation, every stage is complete when findOptimalQuality is entered, and
\* nothing but encoder calls follows the first encoder call.
C22_FixedOrder ==
    /\ \A i \in 1 .. Len(ops) :
         IF i <= Len(C22_CanvasOps) THEN ops[i] = C22_CanvasOps[i]
         ELSE ops[i] = "encode"
    /\ (InFindOptimalQuality \/ pc \in {"foq_enter", "finish", "resolved"}) =>
         Len(ops) >= Len(C22_CanvasOps)
    /\ pc = "foq_enter" => ops = C22_CanvasOps
    /\ pc = "resolved" => Len(ops) > Len(C22_CanvasOps)

C22_Witness ==
    /\ pc = "resolved"
    /\ RotationOf(options) # 0
    /\ IsSome(options.signatureColor)
    /\ options.addDate
    /\ ~ supportsImageBitmap
    /\ Len(ops) > Len(C22_CanvasOps) + 8
    /\ ops[8] = "recolor"
    /\ ops[9] = "band"


\* the fields of the store that are not preferences of the user
NonPreferenceFields ==
    {"selectedPreset", "selectedType", "uploadedFile", "uploadedImageUrl",
     "processedResult", "lastCropArea", "signatureColor", "outputQuality", "showCropper",
     "addDate", "isCustomMode"}
C25_Reset ==
    HandleReset =>
      /\ \A k \in NonPreferenceFields : store'[k] = initialState[k]
      /\ store'.darkMode = store.darkMode

\* C25: the store's reset() restores every non-preference field to its initial
\* value and preserves the user's preferences: darkMode after reset() equals
\* darkMode before reset().
C25_ResetPreservesPreferences == [][C25_Reset]_vars

\* a run of processImage has just called processImageWASM: the handler that
\* started it is still running, so the store is the one it leaves
JustCalled == InFlight(page.current) /\ pc = "start"

\* C24: for every run the page starts (crop confirmation, colour change or
\* quality change), the qualityPreference processImageWASM receives, and the
\* one it hands to findOptimalQuality for targetBytes, is the quality the
\* user selected: the store's outputQuality, which a quality change has just
\* set to the new slider value.
C24_SelectedQualityIsUsed ==
    JustCalled =>
      /\ options.qualityPreference = Some(store.outputQuality)
      /\ PreferenceOf(options) = store.outputQuality

\* C26: after any sequence of page operations, every invocation of
\* processImageWASM started while selectedType is 'photo' carries no
\* signatureColor, so that the ink recolor runs for signature runs only.
C26_PhotoRunsCarryNoColor ==
    (JustCalled /\ store.selectedType = "photo") => options.signatureColor = None


\* the run the event loop is running, if processImage has thrown in it
ThrewIn(pg) ==
    IF pg.current = 0 THEN FALSE
    ELSE pg.runs[pg.current].phase = "hooked" /\ pg.runs[pg.current].outcome = "threw"
C23_Rejected == InFlight(page.current) /\ pc = "rejected"
C23_Step ==
    /\ C23_Rejected =>
         /\ ThrewIn(page')
         /\ page'.runs[page'.current].returned = None
         /\ hook'.step = "upload"
         /\ hook'.progress = 0
         /\ IsSome(hook'.error)
    /\ ThrewIn(page) =>
         /\ store' = store
         /\ page'.runs[page.current].phase = "done"

\* C23: whenever processImageWASM rejects (decode or encode failure),
\* processImage ends with the hook state {step: 'upload', progress: 0,
\* error: a message}, rethrows to its caller and returns no result, and the
\* page's handler leaves the store's processedResult as it was.
C23_RejectionReachesTheHook ==
    /\ [](ThrewIn(page) => (hook.step = "upload" /\ hook.progress = 0 /\ IsSome(hook.error)))
    /\ [][C23_Step]_vars
\* an encoder failure in a colour change that follows a successful run: the
\* earlier result is still the store's
C23_Witness ==
    /\ page.current # 0
    /\ IF page.current = 0 THEN FALSE
       ELSE /\ page.runs[page.current].phase = "done"
            /\ page.runs[page.current].outcome = "threw"
            /\ page.runs[page.current].handler = "color"
    /\ pc = "rejected"
    /\ Len(encLog) > 0
    /\ IsSome(store.processedResult)
    /\ hook.step = "upload"
    /\ IsSome(hook.error)


\* the runs the page started from the colour picker or the quality slider of
\* the result section
Reprocessing == {i \in 1 .. Len(page.runs) : page.runs[i].handler \in {"color", "quality"}}
AllRunsSettled ==
    Len(page.runs) > 0 /\ \A i \in 1 .. Len(page.runs) : page.runs[i].phase = "done"
\* every run has settled, the run started last was a reprocessing run and has
\* returned its result: that result is the one shown
C27_LatestIsShown ==
    (/\ AllRunsSettled
     /\ Len(page.runs) \in Reprocessing
     /\ page.runs[Len(page.runs)].outcome = "returned"
     /\ IsSome(store.processedResult))
    => Get(store.processedResult).dataUrl = Len(page.runs)
\* the result of a reprocessing run is not replaced by that of a run started
\* before it
C27_Step ==
    (/\ IsSome(store.processedResult)
     /\ IsSome(store'.processedResult)
     /\ Get(store.processedResult).dataUrl \in Reprocessing)
    => Get(store'.processedResult).dataUrl >= Get(store.processedResult).dataUrl

\* C27: when the page starts a second run (colour or quality change) before an
\* earlier run has resolved, then once all runs have resolved the store's
\* processedResult is the result of the run started last, in whatever order
\* the runs complete; a stale result of an earlier run never replaces the
\* result of a run started later.
C27_LatestRunWins == [] C27_LatestIsShown /\ [][C27_Step]_vars


\* C28: in every reachable state of the hook, also while several calls of
\* processImage overlap and their progress callbacks and completions
\* interleave, step = 'complete' implies progress = 100 and error = null, and
\* step = 'processing' implies error = null.
C28_HookStateConsistent ==
    /\ hook.step = "complete" => (hook.progress = Pct(100) /\ hook.error = None)
    /\ hook.step = "processing" => hook.error = None

====
